---------------------------- MODULE Spec2Model ----------------------------
(***************************************************************************)
(* Stock-Portfolio: the watchlist store (lib/store/portfolioStore.ts), the  *)
(* Alpha Vantage client with its in-memory cache (lib/api/alphavantage.ts) *)
(* and the effects of the views that call them (components/StockCard.tsx,  *)
(* components/StockTicker.tsx).                                            *)
(*                                                                         *)
(* Strings whose letter case matters (ticker symbols, search keywords) are *)
(* sequences of one-character strings, so that toUpperCase is computed     *)
(* character by character.  Date.now() is the variable now.                *)
(***************************************************************************)
EXTENDS Integers, Sequences, FiniteSets, TLC

VARIABLES
    watchlist,       \* PortfolioState.watchlist: sequence of WatchlistItem
    selectedSymbol,  \* PortfolioState.selectedSymbol: a symbol or Null
    isLoading,       \* PortfolioState.isLoading
    error,           \* PortfolioState.error: a message or Null
    storage,         \* localStorage: whether there is one, and its slot 'portfolio-storage'
    now,             \* Date.now()
    last,            \* the store call executed last: its name, arguments and outcome
    apiKey,          \* AlphaVantageAPI.apiKey of the singleton client
    cache,           \* the module's cache: Map from key to { data, timestamp }
    pending,         \* the upstream requests awaiting their response, oldest first
    done,            \* the client step executed last: the call and how it ended
    timers,          \* StockCard: the refresh timer of each mounted card, by symbol
    fetches,         \* StockCard: the fetchData runs awaiting their responses
    merged,          \* StockCard: the fetchData run that finished last
    ticker,          \* StockTicker: its loading flag, timers and fetchTickerData runs
    search           \* SearchBar: its query, debounce timer, requests and suggestions

storeVars == <<watchlist, selectedSymbol, isLoading, error, storage>>
apiVars == <<apiKey, cache, pending, done>>
viewVars == <<timers, fetches, merged, ticker, search>>
vars == <<watchlist, selectedSymbol, isLoading, error, storage, now, last,
          apiKey, cache, pending, done, timers, fetches, merged, ticker, search>>

-----------------------------------------------------------------------------
(* Values *)

\* An optional value (T | undefined, T | null) is a sequence of length at most
\* one: Undefined and Null are the absent value, Some(v) the value v.
Undefined == <<>>
Null == <<>>
Some(v) == <<v>>

\* Bounds of the model
MaxClock == 1

\* Symbols the callers pass: "ab", "Ab", "AB" (one ticker in three spellings)
\* and "C" (another ticker).
Symbols == { <<"a", "b">>, <<"A", "b">>, <<"A", "B">>, <<"C">> }
OneTicker == { s \in Symbols : Len(s) = 2 }
Names == { "n1", "n2" }
OneName == { "n1" }
Errors == { "e1" }

\* String.prototype.toUpperCase
UpperChar(c) ==
    CASE c = "a" -> "A"
      [] c = "b" -> "B"
      [] c = "c" -> "C"
      [] OTHER -> c

toUpperCase(s) == [i \in 1..Len(s) |-> UpperChar(s[i])]

-----------------------------------------------------------------------------
(* Array helpers *)

\* Array.prototype.find on item.symbol === sym: the first match, or Undefined
find(wl, sym) ==
    IF \E i \in 1..Len(wl) : wl[i].symbol = sym
    THEN Some(wl[CHOOSE i \in 1..Len(wl) :
                     /\ wl[i].symbol = sym
                     /\ \A j \in 1..(i - 1) : wl[j].symbol # sym])
    ELSE Undefined

\* Array.prototype.filter on item.symbol !== sym
filterOut(wl, sym) == SelectSeq(wl, LAMBDA item : item.symbol # sym)

\* The number of entries of wl with symbol sym
Count(wl, sym) == Cardinality({i \in 1..Len(wl) : wl[i].symbol = sym})


-----------------------------------------------------------------------------
(* The watchlist store: the state each call leaves *)

\* The record of a store call: op is the method, symbol its symbol argument and
\* arg the name given to addToWatchlist (each optional), found whether the
\* watchlist held the canonical symbol when it was called, ret what
\* getWatchlistItem returned.
Call(op, symbol, arg, found, ret) ==
    [op |-> op, symbol |-> symbol, arg |-> arg, found |-> found, ret |-> ret]

NoCall == Call("init", Null, Null, FALSE, Undefined)

\* The entry addToWatchlist creates: symbol, name and lastUpdated only
newItem(normalizedSymbol, name, t) ==
    [symbol |-> normalizedSymbol, name |-> name, quote |-> Undefined,
     timeSeries |-> Undefined, overview |-> Undefined, lastUpdated |-> t]

\* Mutant of addItem: the duplicate check compares the symbol as given
addItem_RawCheck(wl, symbol, name, t) ==
    LET normalizedSymbol == toUpperCase(symbol)
        existing == find(wl, symbol)
    IN  IF existing = Undefined
        THEN Append(wl, newItem(normalizedSymbol, name, t))
        ELSE wl

\* Mutant of addItem: an add of a symbol already there renames its entry
addItem_Rename(wl, symbol, name, t) ==
    LET normalizedSymbol == toUpperCase(symbol)
        existing == find(wl, normalizedSymbol)
    IN  IF existing = Undefined
        THEN Append(wl, newItem(normalizedSymbol, name, t))
        ELSE [i \in 1..Len(wl) |->
                 IF wl[i].symbol = normalizedSymbol
                 THEN [wl[i] EXCEPT !.name = name]
                 ELSE wl[i]]

\* addToWatchlist: the watchlist it leaves
addItem(wl, symbol, name, t) ==
    LET normalizedSymbol == toUpperCase(symbol)
        existing == find(wl, normalizedSymbol)
    IN  IF existing = Undefined
        THEN Append(wl, newItem(normalizedSymbol, name, t))
        ELSE wl

\* Mutant of removeItem: the entries left come out in reverse
removeItem_Reverse(wl, symbol) ==
    LET kept == filterOut(wl, toUpperCase(symbol))
    IN  [i \in 1..Len(kept) |-> kept[Len(kept) + 1 - i]]

\* removeFromWatchlist: the watchlist it leaves
removeItem(wl, symbol) == filterOut(wl, toUpperCase(symbol))

\* removeFromWatchlist: the selection it leaves
\* Mutant of removeSelection: the selection is cleared by every removal
removeSelection_Always(sel, symbol) == Null

removeSelection(sel, symbol) == IF sel = Some(symbol) THEN Null ELSE sel

\* Mutant of mapQuote: every entry's timestamp is refreshed
mapQuote_TouchAll(wl, symbol, quote, t) ==
    [i \in 1..Len(wl) |->
        IF wl[i].symbol = toUpperCase(symbol)
        THEN [wl[i] EXCEPT !.quote = Some(quote), !.lastUpdated = t]
        ELSE [wl[i] EXCEPT !.lastUpdated = t]]

\* updateQuote / updateTimeSeries / updateOverview: the watchlist each leaves
\* Mutant of mapQuote: a quote already stored is kept
mapQuote_KeepFirst(wl, symbol, quote, t) ==
    [i \in 1..Len(wl) |->
        IF wl[i].symbol = toUpperCase(symbol) /\ wl[i].quote = Undefined
        THEN [wl[i] EXCEPT !.quote = Some(quote), !.lastUpdated = t]
        ELSE wl[i]]

mapQuote(wl, symbol, quote, t) ==
    [i \in 1..Len(wl) |->
        IF wl[i].symbol = toUpperCase(symbol)
        THEN [wl[i] EXCEPT !.quote = Some(quote), !.lastUpdated = t]
        ELSE wl[i]]

\* Mutant of mapTimeSeries: the entry is rebuilt without spreading the old one
mapTimeSeries_Rebuild(wl, symbol, timeSeries, t) ==
    [i \in 1..Len(wl) |->
        IF wl[i].symbol = toUpperCase(symbol)
        THEN [newItem(wl[i].symbol, wl[i].name, t) EXCEPT
                 !.timeSeries = Some(timeSeries)]
        ELSE wl[i]]

\* Mutant of mapTimeSeries: an absent entry is created
mapTimeSeries_Upsert(wl, symbol, timeSeries, t) ==
    LET all == IF find(wl, toUpperCase(symbol)) = Undefined
               THEN Append(wl, newItem(toUpperCase(symbol), "", t))
               ELSE wl
    IN  [i \in 1..Len(all) |->
            IF all[i].symbol = toUpperCase(symbol)
            THEN [all[i] EXCEPT !.timeSeries = Some(timeSeries), !.lastUpdated = t]
            ELSE all[i]]

mapTimeSeries(wl, symbol, timeSeries, t) ==
    [i \in 1..Len(wl) |->
        IF wl[i].symbol = toUpperCase(symbol)
        THEN [wl[i] EXCEPT !.timeSeries = Some(timeSeries), !.lastUpdated = t]
        ELSE wl[i]]

mapOverview(wl, symbol, overview, t) ==
    [i \in 1..Len(wl) |->
        IF wl[i].symbol = toUpperCase(symbol)
        THEN [wl[i] EXCEPT !.overview = Some(overview), !.lastUpdated = t]
        ELSE wl[i]]

\* Mutant of getItem: the symbol is looked up as given
getItem_Raw(wl, symbol) == find(wl, symbol)

\* getWatchlistItem: the entry it returns, or Undefined
getItem(wl, symbol) == find(wl, toUpperCase(symbol))

\* Whether the watchlist holds the canonical form of symbol
Present(wl, symbol) == find(wl, toUpperCase(symbol)) # Undefined

-----------------------------------------------------------------------------
(* The watchlist store: persistence.  The persist middleware writes the slot  *)
(* after every set() and merges the slot into the initial state when the      *)
(* store is created.                                                          *)

\* get(): the state of the store
get ==
    [watchlist |-> watchlist, selectedSymbol |-> selectedSymbol,
     isLoading |-> isLoading, error |-> error]

\* The state create() starts from
initialState ==
    [watchlist |-> <<>>, selectedSymbol |-> Null, isLoading |-> FALSE,
     error |-> Null]

\* Mutant of partialize: the whole state is persisted
partialize_All(state) == state

\* partialize: (state) => ({ watchlist: state.watchlist })
partialize(state) == [watchlist |-> state.watchlist]

\* JSON.parse(JSON.stringify(x)) of a number: NaN is written as null; of an
\* optional field: undefined is left out, which reads as undefined again
NullNumber == [nan |-> FALSE, val |-> 0, null |-> TRUE]
jsonNumber(x) == IF x.nan THEN NullNumber ELSE x

jsonQuote(q) ==
    [symbol |-> q.symbol, name |-> q.name,
     price |-> jsonNumber(q.price), change |-> jsonNumber(q.change),
     changePercent |-> jsonNumber(q.changePercent),
     volume |-> jsonNumber(q.volume), high |-> jsonNumber(q.high),
     low |-> jsonNumber(q.low), open |-> jsonNumber(q.open),
     previousClose |-> jsonNumber(q.previousClose)]

jsonPoint(pt) ==
    [date |-> pt.date, open |-> jsonNumber(pt.open), high |-> jsonNumber(pt.high),
     low |-> jsonNumber(pt.low), close |-> jsonNumber(pt.close),
     volume |-> jsonNumber(pt.volume)]

jsonItem(item) ==
    [symbol |-> item.symbol, name |-> item.name,
     quote |-> IF item.quote = Undefined THEN Undefined
               ELSE Some(jsonQuote(item.quote[1])),
     timeSeries |-> IF item.timeSeries = Undefined THEN Undefined
                    ELSE Some([i \in 1..Len(item.timeSeries[1]) |->
                                  jsonPoint(item.timeSeries[1][i])]),
     overview |-> item.overview,
     lastUpdated |-> item.lastUpdated]

\* The slot written for a partial state, as JSON.parse reads it back
json(partial) ==
    [f \in DOMAIN partial |->
        IF f = "watchlist"
        THEN [i \in 1..Len(partial[f]) |-> jsonItem(partial[f][i])]
        ELSE partial[f]]

\* setItem after a set(): the storage it leaves
setItem(st, state) ==
    IF st.available THEN [st EXCEPT !.slot = Some(json(partialize(state)))]
    ELSE st

\* The state a newly created store starts in: the slot, when there is one,
\* merged over the initial state
hydrate(st) ==
    IF st.available /\ st.slot # Undefined
    THEN [f \in DOMAIN initialState |->
             IF f \in DOMAIN st.slot[1] THEN st.slot[1][f] ELSE initialState[f]]
    ELSE initialState

-----------------------------------------------------------------------------
(* The watchlist store: its methods *)

Record(op, symbol, arg, ret) ==
    /\ last' = Call(op, symbol, arg,
                    symbol # Null /\ Present(watchlist, symbol[1]), ret)
    /\ UNCHANGED <<apiVars, viewVars>>

addToWatchlist(symbol, name) ==
    /\ watchlist' = addItem(watchlist, symbol, name, now)
    /\ UNCHANGED <<selectedSymbol, isLoading, error, now>>
    /\ storage' = IF find(watchlist, toUpperCase(symbol)) = Undefined
                  THEN setItem(storage, get')
                  ELSE storage
    /\ Record("addToWatchlist", Some(symbol), Some(name), Undefined)

removeFromWatchlist(symbol) ==
    /\ watchlist' = removeItem(watchlist, symbol)
    /\ selectedSymbol' = removeSelection(selectedSymbol, symbol)
    /\ UNCHANGED <<isLoading, error, now>>
    /\ storage' = setItem(storage, get')
    /\ Record("removeFromWatchlist", Some(symbol), Null, Undefined)

updateQuote(symbol, quote) ==
    /\ watchlist' = mapQuote(watchlist, symbol, quote, now)
    /\ UNCHANGED <<selectedSymbol, isLoading, error, now>>
    /\ storage' = setItem(storage, get')
    /\ Record("updateQuote", Some(symbol), Null, Undefined)

updateTimeSeries(symbol, timeSeries) ==
    /\ watchlist' = mapTimeSeries(watchlist, symbol, timeSeries, now)
    /\ UNCHANGED <<selectedSymbol, isLoading, error, now>>
    /\ storage' = setItem(storage, get')
    /\ Record("updateTimeSeries", Some(symbol), Null, Undefined)

updateOverview(symbol, overview) ==
    /\ watchlist' = mapOverview(watchlist, symbol, overview, now)
    /\ UNCHANGED <<selectedSymbol, isLoading, error, now>>
    /\ storage' = setItem(storage, get')
    /\ Record("updateOverview", Some(symbol), Null, Undefined)

\* Mutant of setSelectedSymbol: a symbol that is not in the watchlist is not
\* selected
setSelectedSymbol_Checked(symbol) ==
    /\ selectedSymbol' = IF symbol # Null /\ ~Present(watchlist, symbol[1])
                         THEN Null ELSE symbol
    /\ UNCHANGED <<watchlist, isLoading, error, now>>
    /\ storage' = setItem(storage, get')
    /\ Record("setSelectedSymbol", symbol, Null, Undefined)

setSelectedSymbol(symbol) ==
    /\ selectedSymbol' = symbol
    /\ UNCHANGED <<watchlist, isLoading, error, now>>
    /\ storage' = setItem(storage, get')
    /\ Record("setSelectedSymbol", symbol, Null, Undefined)

setLoading(loading) ==
    /\ isLoading' = loading
    /\ UNCHANGED <<watchlist, selectedSymbol, error, now>>
    /\ storage' = setItem(storage, get')
    /\ Record("setLoading", Null, Null, Undefined)

setError(err) ==
    /\ error' = err
    /\ UNCHANGED <<watchlist, selectedSymbol, isLoading, now>>
    /\ storage' = setItem(storage, get')
    /\ Record("setError", Null, Null, Undefined)

getWatchlistItem(symbol) ==
    /\ UNCHANGED <<watchlist, selectedSymbol, isLoading, error, storage, now>>
    /\ Record("getWatchlistItem", Some(symbol), Null, getItem(watchlist, symbol))

\* Date.now() advances between two calls
Tick ==
    /\ now < MaxClock
    /\ now' = now + 1
    /\ UNCHANGED storeVars
    /\ last' = Call("tick", Null, Null, FALSE, Undefined)
    /\ UNCHANGED <<apiVars, viewVars>>

\* A call of the client awaited by a view: not settled yet, or settled with
\* the value val (optional) that came from "cache" or from "upstream"
Waiting == [settled |-> FALSE, from |-> "", val |-> Null]
Settled(from, val) == [settled |-> TRUE, from |-> from, val |-> val]

\* A run of StockCard's fetchData: the card's symbol, what started it ("mount"
\* or "timer") and its two calls, getQuote and getTimeSeries
Run(symbol, origin, quote, series) ==
    [symbol |-> symbol, origin |-> origin, quote |-> quote, series |-> series]

NoRun == Run(<<>>, "", Waiting, Waiting)

\* StockTicker before its effect has run: useState(true) for isLoading, no
\* timer set, no fetchTickerData started; effect counts the runs of the effect,
\* seen is the watchlist the last one closed over, wrote tells which effect's
\* code called setTickerItems last and which effect was the current one then
NoTicker ==
    [isLoading |-> TRUE, mounted |-> FALSE, interval |-> Null, loadingTimeout |-> Null,
     runs |-> <<>>, abandoned |-> <<>>, started |-> 0, finished |-> 0,
     ended |-> Null, effect |-> 0, seen |-> <<>>, wrote |-> Null]

\* SearchBar before its effect has run: useState('') for the query, no
\* suggestions, no error, no timer set and no request sent; typed is when the
\* query was typed, issued the request sent last (its query, when it was sent
\* and when the query had been typed), replaced the query given up last before
\* its timer fired, shown the request whose response is displayed and latest
\* when the newest request answered so far was sent
NoSearch ==
    [mounted |-> FALSE, query |-> <<>>, typed |-> 0, debounceTimer |-> Null,
     requests |-> <<>>, suggestions |-> <<>>, error |-> Null,
     issued |-> Null, replaced |-> Null, shown |-> Null, latest |-> 0]

\* The page is loaded again: the store is created anew from the slot, the
\* client's module with its cache too, the views are mounted anew
Restart ==
    /\ watchlist' = hydrate(storage).watchlist
    /\ selectedSymbol' = hydrate(storage).selectedSymbol
    /\ isLoading' = hydrate(storage).isLoading
    /\ error' = hydrate(storage).error
    /\ UNCHANGED <<storage, now, apiKey>>
    /\ cache' = <<>>
    /\ pending' = <<>>
    /\ done' = [op |-> "", key |-> <<>>, step |-> "init", from |-> "", val |-> Null,
                message |-> ""]
    /\ timers' = <<>>
    /\ fetches' = <<>>
    /\ merged' = NoRun
    /\ ticker' = NoTicker
    /\ search' = NoSearch
    /\ last' = Call("restart", Null, Null, FALSE, Undefined)

-----------------------------------------------------------------------------
(* The Alpha Vantage client: cache, keys, responses *)

CACHE_DURATION == 60000

\* Map.prototype.get
mapGet(c, key) == IF key \in DOMAIN c THEN Some(c[key]) ELSE Undefined

\* getCached with <= for the < of the source
getCached_Inclusive(c, key, t) ==
    LET cached == mapGet(c, key)
    IN  IF cached # Undefined /\ t - cached[1].timestamp <= CACHE_DURATION
        THEN Some(cached[1].data)
        ELSE Null

\* getCached at time t: the cached data, or Null
getCached(c, key, t) ==
    LET cached == mapGet(c, key)
    IN  IF cached # Undefined /\ t - cached[1].timestamp < CACHE_DURATION
        THEN Some(cached[1].data)
        ELSE Null

\* Mutant of setCache: an entry that is there is kept
setCache_KeepFirst(c, key, data, t) ==
    IF key \in DOMAIN c THEN c ELSE (key :> [data |-> data, timestamp |-> t]) @@ c

\* setCache at time t: the cache it leaves
setCache(c, key, data, t) == (key :> [data |-> data, timestamp |-> t]) @@ c

\* The cache keys, `quote_${symbol}` and the like: a string built from a symbol
\* is the sequence of its parts
quoteKey(symbol) == <<"quote_">> \o symbol
timeSeriesKey(symbol, interval) == <<"timeseries_">> \o symbol \o <<"_", interval>>
overviewKey(symbol) == <<"overview_">> \o symbol
searchKey(keywords) == <<"search_">> \o keywords

\* A response of axios.get: ok false when the request is rejected (err its
\* message), else data is the JSON object received, a function from its field
\* names to their values.
Rejected(err) == [ok |-> FALSE, err |-> err, data |-> <<>>]
Received(data) == [ok |-> TRUE, err |-> "", data |-> data]

\* obj[field] of a JSON object
Field(obj, field) == IF field \in DOMAIN obj THEN Some(obj[field]) ELSE Undefined

\* Whether obj[field], a string when there, is truthy: there and not empty
Truthy(obj, field) == field \in DOMAIN obj /\ obj[field] # ""

\* The same for a field that holds a symbol
TruthySymbol(obj, field) == field \in DOMAIN obj /\ obj[field] # <<>>

\* response.data['Error Message'] || response.data['Note']
Marker(data) ==
    IF Truthy(data, "Error Message") THEN Some(data["Error Message"])
    ELSE IF Truthy(data, "Note") THEN Some(data["Note"])
    ELSE Undefined

\* A number in a response is text: the decimal text of num followed by rest
Text(num, rest) == [num |-> num, rest |-> rest]

\* The numbers parseFloat and parseInt return
NaN == [nan |-> TRUE, val |-> 0]
Num(n) == [nan |-> FALSE, val |-> n]

\* parseFloat / parseInt of obj[field]: the leading number of the text, NaN
\* for undefined
parseFloat(x) == IF x = Undefined THEN NaN ELSE Num(x[1].num)

\* String.prototype.replace('%', '')
replacePercent(text) == [text EXCEPT !.rest = IF @ = "%" THEN "" ELSE @]

\* How a method body ends: it throws message, or returns val (an optional
\* value: Null is the return value null), having cached it when stored
Throw(message) == [throws |-> TRUE, message |-> message, val |-> Null, stored |-> FALSE]
Return(val, stored) == [throws |-> FALSE, message |-> "", val |-> val, stored |-> stored]

TypeError == "TypeError"

\* The catch block of searchSymbols in place of the one of the other methods
CatchReturn_Rethrow(outcome, fallback) == outcome

\* catch (error) { console.error(...); return fallback; }
CatchReturn(outcome, fallback) ==
    IF outcome.throws THEN Return(fallback, FALSE) ELSE outcome

\* catch (error) { console.error(...); throw error; }
CatchRethrow(outcome) == outcome

-----------------------------------------------------------------------------
(* getQuote *)

\* The StockQuote built from response.data['Global Quote']
stockQuote(quote) ==
    [symbol |-> Field(quote, "01. symbol"),
     name |-> Field(quote, "01. symbol"),
     price |-> parseFloat(Field(quote, "05. price")),
     change |-> parseFloat(Field(quote, "09. change")),
     changePercent |-> parseFloat(Some(replacePercent(quote["10. change percent"]))),
     volume |-> parseFloat(Field(quote, "06. volume")),
     high |-> parseFloat(Field(quote, "03. high")),
     low |-> parseFloat(Field(quote, "04. low")),
     open |-> parseFloat(Field(quote, "02. open")),
     previousClose |-> parseFloat(Field(quote, "08. previous close"))]

\* The try block of getQuote from the response on: a rejected request throws
\* at the await, .replace on a missing change percent throws a TypeError
quoteTry(response) ==
    IF ~response.ok THEN Throw(response.err)
    ELSE IF Marker(response.data) # Undefined THEN Return(Null, FALSE)
    ELSE IF "Global Quote" \notin DOMAIN response.data THEN Return(Null, FALSE)
    ELSE LET quote == response.data["Global Quote"]
         IN  IF "05. price" \notin DOMAIN quote THEN Return(Null, FALSE)
             ELSE IF "10. change percent" \notin DOMAIN quote THEN Throw(TypeError)
             ELSE Return(Some(stockQuote(quote)), TRUE)

\* How getQuote ends for a response
quoteResult(response) == CatchReturn(quoteTry(response), Null)

-----------------------------------------------------------------------------
(* getTimeSeries *)

\* response.data[timeSeriesKey]
seriesField(interval) ==
    IF interval = "daily" THEN "Time Series (Daily)"
    ELSE "Time Series (" \o interval \o ")"

\* new Date(date).getTime() of the date numbered d, in seconds: the sort uses
\* the sign of a difference of two of them only
getTime(d) == d * 86400

\* One entry of Object.entries(timeSeries), mapped
seriesPoint(entry) ==
    [date |-> entry.date,
     open |-> parseFloat(Field(entry.values, "1. open")),
     high |-> parseFloat(Field(entry.values, "2. high")),
     low |-> parseFloat(Field(entry.values, "3. low")),
     close |-> parseFloat(Field(entry.values, "4. close")),
     volume |-> parseFloat(Field(entry.values, "5. volume"))]

\* Array.prototype.sort by date, ascending and stable
RECURSIVE sortByDate(_)
sortByDate(points) ==
    IF Len(points) <= 1 THEN points
    ELSE LET rest == sortByDate(SubSeq(points, 1, Len(points) - 1))
             x == points[Len(points)]
             before == {i \in 1..Len(rest) :
                           getTime(rest[i].date) - getTime(x.date) <= 0}
             k == IF before = {} THEN 0
                  ELSE CHOOSE i \in before : \A j \in before : j <= i
         IN  SubSeq(rest, 1, k) \o <<x>> \o SubSeq(rest, k + 1, Len(rest))

\* Array.prototype.slice(0, n) for slice(-n)
sliceLast_First(points, n) ==
    IF Len(points) <= n THEN points ELSE SubSeq(points, 1, n)

\* Array.prototype.slice(-n)
sliceLast(points, n) ==
    IF Len(points) <= n THEN points
    ELSE SubSeq(points, Len(points) - n + 1, Len(points))

\* seriesTry returning null, as getQuote does, on an error marker
seriesTry_MarkerNull(response, interval) ==
    IF ~response.ok THEN Throw(response.err)
    ELSE IF Marker(response.data) # Undefined THEN Return(Null, FALSE)
    ELSE IF seriesField(interval) \notin DOMAIN response.data
         THEN Return(Some(<<>>), FALSE)
    ELSE LET entries == response.data[seriesField(interval)]
             mapped == [i \in 1..Len(entries) |-> seriesPoint(entries[i])]
         IN  Return(Some(sliceLast(sortByDate(mapped), 30)), TRUE)

\* Mutant of seriesTry: the empty array returned on an error marker is cached
seriesTry_CacheEmpty(response, interval) ==
    IF ~response.ok THEN Throw(response.err)
    ELSE IF Marker(response.data) # Undefined THEN Return(Some(<<>>), TRUE)
    ELSE IF seriesField(interval) \notin DOMAIN response.data
         THEN Return(Some(<<>>), FALSE)
    ELSE LET entries == response.data[seriesField(interval)]
             mapped == [i \in 1..Len(entries) |-> seriesPoint(entries[i])]
         IN  Return(Some(sliceLast(sortByDate(mapped), 30)), TRUE)

\* The try block of getTimeSeries from the response on
seriesTry(response, interval) ==
    IF ~response.ok THEN Throw(response.err)
    ELSE IF Marker(response.data) # Undefined THEN Return(Some(<<>>), FALSE)
    ELSE IF seriesField(interval) \notin DOMAIN response.data
         THEN Return(Some(<<>>), FALSE)
    ELSE LET entries == response.data[seriesField(interval)]
             mapped == [i \in 1..Len(entries) |-> seriesPoint(entries[i])]
         IN  Return(Some(sliceLast(sortByDate(mapped), 30)), TRUE)

\* How getTimeSeries ends for a response
seriesResult(response, interval) ==
    CatchReturn(seriesTry(response, interval), Some(<<>>))

-----------------------------------------------------------------------------
(* getCompanyOverview *)

companyOverview(data) ==
    [symbol |-> Field(data, "Symbol"),
     name |-> Field(data, "Name"),
     description |-> Field(data, "Description"),
     sector |-> Field(data, "Sector"),
     industry |-> Field(data, "Industry"),
     marketCap |-> Field(data, "MarketCapitalization"),
     peRatio |-> Field(data, "PERatio"),
     dividendYield |-> Field(data, "DividendYield"),
     eps |-> Field(data, "EPS"),
     beta |-> Field(data, "Beta"),
     high52 |-> Field(data, "52WeekHigh"),
     low52 |-> Field(data, "52WeekLow")]

\* The try block of getCompanyOverview from the response on
overviewTry(response) ==
    IF ~response.ok THEN Throw(response.err)
    ELSE IF Marker(response.data) # Undefined \/ ~TruthySymbol(response.data, "Symbol")
         THEN Return(Null, FALSE)
    ELSE Return(Some(companyOverview(response.data)), TRUE)

\* How getCompanyOverview ends for a response
overviewResult(response) == CatchReturn(overviewTry(response), Null)

-----------------------------------------------------------------------------
(* searchSymbols *)

ConfigError ==
    "API key not configured. Please set NEXT_PUBLIC_ALPHAVANTAGE_API_KEY in your environment variables."

searchResultOf(match) ==
    [symbol |-> Field(match, "1. symbol"),
     name |-> Field(match, "2. name"),
     type |-> Field(match, "3. type"),
     region |-> Field(match, "4. region")]

\* .filter((result) => result.symbol && result.name)
validResults(results) ==
    SelectSeq(results, LAMBDA r : /\ r.symbol # Undefined /\ r.symbol[1] # <<>>
                                  /\ r.name # Undefined /\ r.name[1] # "")

\* The try block of searchSymbols from the response on
searchTry(response) ==
    IF ~response.ok THEN Throw(response.err)
    ELSE IF Truthy(response.data, "Error Message")
         THEN Throw(response.data["Error Message"])
    ELSE IF Truthy(response.data, "Note") THEN Throw(response.data["Note"])
    ELSE LET matches == IF "bestMatches" \in DOMAIN response.data
                        THEN response.data["bestMatches"]
                        ELSE <<>>
         IN  IF Len(matches) = 0
             THEN Return(Some(<<>>), FALSE)
             ELSE Return(Some(validResults(
                      [i \in 1..Len(matches) |-> searchResultOf(matches[i])])), TRUE)

\* searchSymbols with the catch block of the other methods
searchResult_Swallow(response) == CatchReturn(searchTry(response), Some(<<>>))

\* How searchSymbols ends for a response
searchResult(response) == CatchRethrow(searchTry(response))

-----------------------------------------------------------------------------
(* The Alpha Vantage client: its methods.  Each is a call up to its await    *)
(* (served from the cache, or the request sent) and the rest of the call      *)
(* when the response arrives.                                                 *)

\* Bound of the model: the requests in flight at a time
MaxPending == 1

\* The record of a client step: op the method, key its cache key, step what
\* happened ("request": the request was sent; "return": it returned val, an
\* optional value; "throw": it threw message), from where the result came
\* from ("cache", "upstream", or "config" for the missing API key).
Step(op, key, step, from, val, message) ==
    [op |-> op, key |-> key, step |-> step, from |-> from, val |-> val,
     message |-> message]

NoStep == Step("", <<>>, "init", "", Null, "")

\* A request in flight: the call that sent it and the params of axios.get
Request(op, key, function, symbol, interval) ==
    [op |-> op, key |-> key, function |-> function, symbol |-> symbol,
     interval |-> interval]

Remove(seq, i) == SubSeq(seq, 1, i - 1) \o SubSeq(seq, i + 1, Len(seq))

\* The common start of the four methods: return the cached data, or send the
\* request
Lookup(op, key, function, symbol, interval) ==
    LET cached == getCached(cache, key, now)
    IN  IF cached # Null
        THEN /\ done' = Step(op, key, "return", "cache", cached, "")
             /\ UNCHANGED pending
        ELSE /\ Len(pending) < MaxPending
             /\ pending' = Append(pending, Request(op, key, function, symbol, interval))
             /\ done' = Step(op, key, "request", "", Null, "")

\* The common end of the four methods: cache the data and return it, or throw
Complete(i, result) ==
    /\ cache' = IF result.stored
                THEN setCache(cache, pending[i].key, result.val[1], now)
                ELSE cache
    /\ done' = IF result.throws
               THEN Step(pending[i].op, pending[i].key, "throw", "upstream",
                         Null, result.message)
               ELSE Step(pending[i].op, pending[i].key, "return", "upstream",
                         result.val, "")
    /\ pending' = Remove(pending, i)
    /\ UNCHANGED <<apiKey, now, storeVars, last, viewVars>>

getQuote(symbol) ==
    /\ Lookup("getQuote", quoteKey(symbol), "GLOBAL_QUOTE", toUpperCase(symbol), "")
    /\ UNCHANGED <<apiKey, cache, now, storeVars, last, viewVars>>

getQuoteResponse(i, response) ==
    /\ pending[i].op = "getQuote"
    /\ Complete(i, quoteResult(response))

getTimeSeries(symbol, interval) ==
    /\ Lookup("getTimeSeries", timeSeriesKey(symbol, interval),
              IF interval = "daily" THEN "TIME_SERIES_DAILY" ELSE "TIME_SERIES_INTRADAY",
              toUpperCase(symbol), interval)
    /\ UNCHANGED <<apiKey, cache, now, storeVars, last, viewVars>>

getTimeSeriesResponse(i, response) ==
    /\ pending[i].op = "getTimeSeries"
    /\ Complete(i, seriesResult(response, pending[i].interval))

getCompanyOverview(symbol) ==
    /\ Lookup("getCompanyOverview", overviewKey(symbol), "OVERVIEW",
              toUpperCase(symbol), "")
    /\ UNCHANGED <<apiKey, cache, now, storeVars, last, viewVars>>

getCompanyOverviewResponse(i, response) ==
    /\ pending[i].op = "getCompanyOverview"
    /\ Complete(i, overviewResult(response))

\* searchSymbols without its check of the API key
missingKey_Unchecked(key) == FALSE

\* if (!this.apiKey)
missingKey(key) == key = ""

searchSymbols(keywords) ==
    /\ IF missingKey(apiKey)
       THEN /\ done' = Step("searchSymbols", searchKey(keywords), "throw", "config",
                            Null, ConfigError)
            /\ UNCHANGED pending
       ELSE Lookup("searchSymbols", searchKey(keywords), "SYMBOL_SEARCH", keywords, "")
    /\ UNCHANGED <<apiKey, cache, now, storeVars, last, viewVars>>

searchSymbolsResponse(i, response) ==
    /\ pending[i].op = "searchSymbols"
    /\ Complete(i, searchResult(response))

\* Time passes
ApiTimes == {0, CACHE_DURATION - 1, CACHE_DURATION}

Elapse ==
    /\ \E t \in ApiTimes : t > now /\ now' = t
    /\ done' = Step("", <<>>, "elapse", "", Null, "")
    /\ UNCHANGED <<apiKey, cache, pending, storeVars, last, viewVars>>

-----------------------------------------------------------------------------
(* What the upstream may answer *)

Object(fields, value(_)) == [f \in fields |-> value(f)]
Without(obj, field) == [f \in DOMAIN obj \ {field} |-> obj[f]]
EmptyObject == <<>>

Failures ==
    { Rejected("Network Error"),
      Received("Error Message" :> "invalid"),
      Received("Note" :> "rate limit exceeded"),
      Received(EmptyObject) }

GlobalQuote(symbol) ==
    ("01. symbol" :> symbol) @@ ("02. open" :> Text(1, "")) @@
    ("03. high" :> Text(2, "")) @@ ("04. low" :> Text(3, "")) @@
    ("05. price" :> Text(4, "")) @@ ("06. volume" :> Text(5, "")) @@
    ("08. previous close" :> Text(6, "")) @@ ("09. change" :> Text(7, "")) @@
    ("10. change percent" :> Text(8, "%"))

QuoteResponses(symbol) ==
    Failures \cup
    { Received("Global Quote" :> EmptyObject),
      Received("Global Quote" :> Without(GlobalQuote(symbol), "10. change percent")),
      Received("Global Quote" :> GlobalQuote(symbol)) }

Values(n) ==
    ("1. open" :> Text(n, "")) @@ ("2. high" :> Text(n, "")) @@
    ("3. low" :> Text(n, "")) @@ ("4. close" :> Text(n, "")) @@
    ("5. volume" :> Text(n, ""))

\* The newest date first, as the upstream sends them
SeriesResponses(interval) ==
    Failures \cup
    { Received(seriesField(interval) :>
          << [date |-> 2, values |-> Values(2)], [date |-> 1, values |-> Values(1)] >>) }

\* Histories of n dates, numbered 1..n from the oldest, in four orders of the
\* upstream mapping: oldest first, newest first, rotated, odd dates then even
\* dates backwards
MaxDates == 32

Entry(d) == [date |-> d, values |-> Values(d)]
Ascending(n) == [i \in 1..n |-> Entry(i)]
Descending(n) == [i \in 1..n |-> Entry(n + 1 - i)]
Rotated(n) == [i \in 1..n |-> Entry(((i + 1) % n) + 1)]
Interleaved(n) ==
    [i \in 1..n |-> IF i <= (n + 1) \div 2 THEN Entry(2 * i - 1)
                    ELSE Entry(2 * (n - i + 1))]

\* The sizes around the cap of 30 points, and the smallest
HistorySizes == {n \in 0..MaxDates : n <= 1 \/ n >= 30}

HistoryResponses ==
    {Received(seriesField("daily") :> h) :
        h \in UNION {{Ascending(n), Descending(n), Rotated(n), Interleaved(n)} :
                        n \in HistorySizes}}

OverviewResponses(symbol) ==
    Failures \cup
    { Received(("Name" :> "Name") @@ ("Sector" :> "Sector")),
      Received(("Symbol" :> symbol) @@ ("Name" :> "Name") @@ ("Sector" :> "Sector")) }

Match(symbol, name) ==
    ("1. symbol" :> symbol) @@ ("2. name" :> name) @@ ("3. type" :> "Equity") @@
    ("4. region" :> "United States")

SearchResponses ==
    Failures \cup
    { Received(("Error Message" :> "invalid") @@ ("Note" :> "rate limit exceeded")),
      Received("bestMatches" :> <<>>),
      Received("bestMatches" :> << Match(<<"A", "B">>, "Name"), Match(<<"C">>, "") >>) }

-----------------------------------------------------------------------------
(* The client from its construction *)

ApiKeys == {"", "demo"}

\* The arguments the views pass: a ticker in two spellings to getQuote and in
\* one to the others, a keyword, the default interval
ApiSymbols == { <<"a", "b">>, <<"A", "B">> }
OneSymbol == { <<"a", "b">> }
Keywords == { <<"a", "b">> }
Intervals == { "daily" }

\* What the views pass to the store is what the client returned: the quote of
\* a full response and the one of a response without "09. change", a series of
\* one point, an overview
OverviewData(symbol) ==
    ("Symbol" :> symbol) @@ ("Name" :> "Name") @@ ("Sector" :> "Sector")

Quotes == { stockQuote(GlobalQuote(<<"A", "B">>)) }
PartialQuotes == { stockQuote(Without(GlobalQuote(<<"A", "B">>), "09. change")) }
Series == { <<seriesPoint(Entry(1))>> }
Overviews == { companyOverview(OverviewData(<<"A", "B">>)) }

\* Any store call with its arguments drawn from the given sets (listed: the
\* symbols added and removed; symbols: those of the other calls), or the clock
\* advancing
StoreCallsOn(listed, symbols, names, quotes) ==
    \/ \E s \in listed, n \in names : addToWatchlist(s, n)
    \/ \E s \in listed : removeFromWatchlist(s)
    \/ \E s \in symbols, q \in quotes : updateQuote(s, q)
    \/ \E s \in symbols, ts \in Series : updateTimeSeries(s, ts)
    \/ \E s \in symbols, o \in Overviews : updateOverview(s, o)
    \/ \E s \in {Some(x) : x \in symbols} \cup {Null} : setSelectedSymbol(s)
    \/ \E b \in BOOLEAN : setLoading(b)
    \/ \E e \in {Some(x) : x \in Errors} \cup {Null} : setError(e)
    \/ \E s \in symbols : getWatchlistItem(s)
    \/ Tick

StoreCalls(symbols, names, quotes) == StoreCallsOn(symbols, symbols, names, quotes)

StoreNext(symbols, names) == StoreCalls(symbols, names, Quotes)

\* Any client step
ApiNext ==
    \/ \E s \in ApiSymbols : getQuote(s)
    \/ \E i \in 1..Len(pending) :
           \E r \in QuoteResponses(pending[i].symbol) : getQuoteResponse(i, r)
    \/ \E s \in OneSymbol, v \in Intervals : getTimeSeries(s, v)
    \/ \E i \in 1..Len(pending) :
           \E r \in SeriesResponses(pending[i].interval) : getTimeSeriesResponse(i, r)
    \/ \E s \in OneSymbol : getCompanyOverview(s)
    \/ \E i \in 1..Len(pending) :
           \E r \in OverviewResponses(pending[i].symbol) : getCompanyOverviewResponse(i, r)
    \/ \E k \in Keywords : searchSymbols(k)
    \/ \E i \in 1..Len(pending) :
           \E r \in SearchResponses : searchSymbolsResponse(i, r)
    \/ Elapse

\* The fields of a Global Quote that getQuote reads
QuoteFields ==
    {"01. symbol", "02. open", "03. high", "04. low", "05. price", "06. volume",
     "08. previous close", "09. change", "10. change percent"}

\* The quote responses in which one of the fields is absent
PartialQuoteResponses(symbol) ==
    {Received("Global Quote" :> Without(GlobalQuote(symbol), f)) : f \in QuoteFields}

\* Any step of getQuote, the upstream answering with a full quote or with one
\* that lacks a field
QuoteNext ==
    \/ \E s \in ApiSymbols : getQuote(s)
    \/ \E i \in 1..Len(pending) :
           \E r \in PartialQuoteResponses(pending[i].symbol)
                      \cup {Received("Global Quote" :> GlobalQuote(pending[i].symbol))} :
               getQuoteResponse(i, r)
    \/ Elapse

\* Any step of the client, the upstream refusing every request: it answers a request without apikey with an "Error Message"
\* (or a "Note", or nothing usable), or the request fails
RefusedNext ==
    \/ \E s \in Symbols : getQuote(s)
    \/ \E i \in 1..Len(pending) : \E r \in Failures : getQuoteResponse(i, r)
    \/ \E s \in Symbols, v \in Intervals : getTimeSeries(s, v)
    \/ \E i \in 1..Len(pending) : \E r \in Failures : getTimeSeriesResponse(i, r)
    \/ \E s \in Symbols : getCompanyOverview(s)
    \/ \E i \in 1..Len(pending) : \E r \in Failures : getCompanyOverviewResponse(i, r)
    \/ \E k \in Keywords : searchSymbols(k)
    \/ Elapse

\* Any step of getTimeSeries, the upstream answering with a history
SeriesNext ==
    \/ \E s \in OneSymbol, v \in Intervals : getTimeSeries(s, v)
    \/ \E i \in 1..Len(pending) :
           \E r \in HistoryResponses : getTimeSeriesResponse(i, r)
    \/ Elapse

-----------------------------------------------------------------------------
(* StockCard: the effect that fetches the card's data on mount and on every *)
(* tick of its refresh timer (components/StockCard.tsx)                      *)

\* setInterval(fetchData, 60000)
RefreshPeriod == 60000

\* Bound of the model: the fetchData runs awaiting a response at a time
MaxFetches == 1

\* A call of the client up to its await: the cached data, or the request is
\* sent and the call waits
Asked(key) ==
    LET cached == getCached(cache, key, now)
    IN  IF cached # Null THEN Settled("cache", cached) ELSE Waiting

\* if (quote) updateQuote(symbol, quote); if (timeSeries) updateTimeSeries(...)
mergeRun(wl, run, t) ==
    LET wl1 == IF run.quote.val # Null
               THEN mapQuote(wl, run.symbol, run.quote.val[1], t)
               ELSE wl
    IN  IF run.series.val # Null
        THEN mapTimeSeries(wl1, run.symbol, run.series.val[1], t)
        ELSE wl1

\* fetchData after its await: both calls have settled, their results are
\* merged into the store
Finish(run) ==
    /\ watchlist' = mergeRun(watchlist, run, now)
    /\ UNCHANGED <<selectedSymbol, isLoading, error>>
    /\ storage' = IF run.quote.val # Null \/ run.series.val # Null
                  THEN setItem(storage, get')
                  ELSE storage
    /\ last' = IF run.series.val # Null
               THEN Call("updateTimeSeries", Some(run.symbol), Null,
                         Present(watchlist, run.symbol), Undefined)
               ELSE IF run.quote.val # Null
               THEN Call("updateQuote", Some(run.symbol), Null,
                         Present(watchlist, run.symbol), Undefined)
               ELSE last
    /\ merged' = run

\* A run goes on when a call of it settles: it finishes, or awaits the other
Proceed(run, rest) ==
    IF run.quote.settled /\ run.series.settled
    THEN /\ Finish(run)
         /\ fetches' = rest
    ELSE /\ Len(rest) < MaxFetches
         /\ fetches' = Append(rest, run)
         /\ UNCHANGED <<storeVars, last, merged>>

\* fetchData up to its await: Promise.all of getQuote and getTimeSeries
fetchData(symbol, origin) ==
    Proceed(Run(symbol, origin, Asked(quoteKey(symbol)),
                Asked(timeSeriesKey(symbol, "daily"))),
            fetches)

\* Watchlist renders one card per entry; the effect of a new card calls
\* fetchData and sets the timer
Mount(symbol) ==
    /\ \E i \in 1..Len(watchlist) : watchlist[i].symbol = symbol
    /\ symbol \notin DOMAIN timers
    /\ timers' = (symbol :> now + RefreshPeriod) @@ timers
    /\ fetchData(symbol, "mount")
    /\ UNCHANGED <<now, apiVars, ticker, search>>

\* The card of a removed entry is unmounted: clearInterval
Unmount(symbol) ==
    /\ symbol \in DOMAIN timers
    /\ \A i \in 1..Len(watchlist) : watchlist[i].symbol # symbol
    /\ timers' = [s \in DOMAIN timers \ {symbol} |-> timers[s]]
    /\ UNCHANGED <<storeVars, now, last, apiVars, fetches, merged, ticker, search>>

\* The timer of a mounted card fires: fetchData again
Refresh(symbol) ==
    /\ symbol \in DOMAIN timers
    /\ now = timers[symbol]
    /\ timers' = [timers EXCEPT ![symbol] = @ + RefreshPeriod]
    /\ fetchData(symbol, "timer")
    /\ UNCHANGED <<now, apiVars, ticker, search>>

\* The response to the getQuote of a run arrives
QuoteArrives(i, response) ==
    /\ ~fetches[i].quote.settled
    /\ LET result == quoteResult(response)
       IN  /\ cache' = IF result.stored
                       THEN setCache(cache, quoteKey(fetches[i].symbol),
                                     result.val[1], now)
                       ELSE cache
           /\ Proceed([fetches[i] EXCEPT !.quote = Settled("upstream", result.val)],
                      Remove(fetches, i))
    /\ UNCHANGED <<now, apiKey, pending, done, timers, ticker, search>>

\* The response to the getTimeSeries of a run arrives
SeriesArrives(i, response) ==
    /\ ~fetches[i].series.settled
    /\ LET result == seriesResult(response, "daily")
       IN  /\ cache' = IF result.stored
                       THEN setCache(cache, timeSeriesKey(fetches[i].symbol, "daily"),
                                     result.val[1], now)
                       ELSE cache
           /\ Proceed([fetches[i] EXCEPT !.series = Settled("upstream", result.val)],
                      Remove(fetches, i))
    /\ UNCHANGED <<now, apiKey, pending, done, timers, ticker, search>>

\* Time passes, up to the next tick of a mounted card's timer: a request takes
\* a millisecond or more, a timer fires when it is due
CardTimes == {0, 1, RefreshPeriod}

Advance ==
    /\ \E t \in CardTimes :
           /\ t > now
           /\ \A s \in DOMAIN timers : timers[s] >= t
           /\ now' = t
    /\ UNCHANGED <<storeVars, last, apiVars, viewVars>>

\* What the upstream answers a card: a quote or a failure, a history of one
\* date or a failure
CardQuoteResponses(symbol) ==
    { Received("Global Quote" :> GlobalQuote(symbol)), Rejected("Network Error") }

CardSeriesResponses ==
    { Received(seriesField("daily") :> Ascending(1)), Rejected("Network Error") }

\* Any step of the watchlist page: an entry is added or removed, a card is
\* mounted or unmounted, a timer fires, a response arrives, the fetch of the
\* detail view completes with an overview, time passes
CardNext ==
    \/ \E s \in OneSymbol, n \in OneName : addToWatchlist(s, n)
    \/ \E s \in OneSymbol : removeFromWatchlist(s)
    \/ \E i \in 1..Len(watchlist) : Mount(watchlist[i].symbol)
    \/ \E s \in DOMAIN timers : Unmount(s)
    \/ \E s \in DOMAIN timers : Refresh(s)
    \/ \E i \in 1..Len(fetches) :
           \E r \in CardQuoteResponses(fetches[i].symbol) : QuoteArrives(i, r)
    \/ \E i \in 1..Len(fetches) : \E r \in CardSeriesResponses : SeriesArrives(i, r)
    \/ \E s \in OneSymbol, o \in Overviews : updateOverview(toUpperCase(s), o)
    \/ Advance

-----------------------------------------------------------------------------
(* StockTicker: the effect that fetches the quotes of the ticker in a batch  *)
(* loop, one call at a time (components/StockTicker.tsx)                     *)

\* const timeout = 10000; the delays 2000 and 13000 between two calls;
\* setTimeout(..., 15000) for the loading flag; setInterval(fetchTickerData, 60000)
timeout == 10000
ShortDelay == 2000
LongDelay == 13000
LoadingLimit == 15000
TickerPeriod == 60000

\* Bounds of the model: the symbols of a batch (slice(0, 10) in the code) and
\* the runs of fetchTickerData that are started
MaxBatch == 2
MaxRuns == 2

\* MARKET_INDICES and POPULAR_STOCKS, two symbols standing for each list
MARKET_INDICES == << <<"A", "B">>, <<"B">> >>
POPULAR_STOCKS == << <<"C">>, <<"A">> >>

\* .map(item => item.symbol)
Listed(wl) == [i \in 1..Len(wl) |-> wl[i].symbol]

InList(list, symbol) == \E i \in 1..Len(list) : list[i] = symbol

\* watchlist.filter(item => item.quote).map(item => item.symbol)
watchlistSymbolsWithQuotes(wl) ==
    Listed(SelectSeq(wl, LAMBDA item : item.quote # Undefined))

\* [...marketIndicesToFetch, ...stocksToFetch].slice(0, 10)
symbolsToFetch(wl) ==
    LET held == watchlistSymbolsWithQuotes(wl)
        wanted == SelectSeq(MARKET_INDICES \o POPULAR_STOCKS,
                            LAMBDA symbol : ~InList(held, symbol))
    IN  SubSeq(wanted, 1, IF Len(wanted) < MaxBatch THEN Len(wanted) ELSE MaxBatch)

\* const delay = (isMarketIndex && i < 4) ? 2000 : 13000, i counted from 1 here
delay(symbol, i) ==
    IF InList(MARKET_INDICES, symbol) /\ i - 1 < 4 THEN ShortDelay ELSE LongDelay

\* The loop awaits the call alone: no timer is set
timeoutPromise_Never(t) == Null

\* setTimeout(() => resolve(null), timeout): when the timer of the race is due
timeoutPromise(t) == Some(t + timeout)

\* A run of fetchTickerData inside its loop: the batch, the iteration i, what
\* it awaits (the "delay" before a call, or the "race" of the call and its
\* timer), when the timer it awaits is due, the calls abandoned so far and the
\* quotes pushed to results; the effect whose closure it is and how many
\* watchlistItemsWithQuotes that effect computed
Loop(symbols, effect, items) ==
    [symbols |-> symbols, i |-> 1, phase |-> "delay", wake |-> Null,
     timedOut |-> 0, results |-> 0, effect |-> effect, items |-> items]

\* setTickerItems called by code of the given effect
setTickerItems(tk, effect) ==
    [tk EXCEPT !.wrote = Some([by |-> effect, during |-> tk.effect])]

\* How a run ended: the calls of its loop, how many were abandoned at the
\* timeout and how many gave a quote
Ended(calls, timedOut, results) ==
    [calls |-> calls, timedOut |-> timedOut, results |-> results]

\* The loop after the race of iteration i: the quote is pushed and shown, then
\* the delay of the next iteration, or the end of the loop and the finally block
afterRace(tk, k, quote, late) ==
    LET run == tk.runs[k]
        timedOut == run.timedOut + late
        results == run.results + (IF quote # Null THEN 1 ELSE 0)
        shown == IF quote # Null THEN setTickerItems(tk, run.effect) ELSE tk
    IN  IF run.i = Len(run.symbols)
        THEN [(IF run.items + results > 0 THEN setTickerItems(tk, run.effect) ELSE tk)
                 EXCEPT !.isLoading = FALSE,
                        !.runs = Remove(@, k),
                        !.finished = @ + 1,
                        !.ended = Some(Ended(Len(run.symbols), timedOut, results))]
        ELSE [shown EXCEPT
                        !.isLoading = IF quote # Null THEN FALSE ELSE @,
                        !.runs[k] = [run EXCEPT
                            !.i = @ + 1,
                            !.phase = "delay",
                            !.wake = Some(now + delay(run.symbols[run.i + 1], run.i + 1)),
                            !.timedOut = timedOut,
                            !.results = results]]

\* api.getQuote(symbol) raced against the timer: the cached quote wins at
\* once, otherwise the loop awaits the response or the timer
race(tk, k) ==
    LET cached == getCached(cache, quoteKey(tk.runs[k].symbols[tk.runs[k].i]), now)
    IN  IF cached # Null
        THEN afterRace(tk, k, cached, 0)
        ELSE [tk EXCEPT !.runs[k].phase = "race",
                        !.runs[k].wake = timeoutPromise(now)]

\* fetchTickerData up to its first await, over the watchlist its effect
\* closed over
fetchTickerData(tk) ==
    LET symbols == symbolsToFetch(tk.seen)
    IN  IF Len(symbols) = 0
        THEN [tk EXCEPT !.isLoading = FALSE,
                        !.started = @ + 1,
                        !.finished = @ + 1,
                        !.ended = Some(Ended(0, 0, 0))]
        ELSE race([tk EXCEPT !.runs = Append(@, Loop(symbols, tk.effect,
                                          Len(watchlistSymbolsWithQuotes(tk.seen)))),
                             !.started = @ + 1],
                  Len(tk.runs) + 1)

TickerFrame ==
    UNCHANGED <<storeVars, last, apiKey, pending, done, timers, fetches, merged, search>>

\* The body of the effect over the watchlist wl: the entries with a quote are
\* shown at once, the timer of the loading flag and the refresh timer are set
\* (the cleanup of the effect before has cleared them), fetchTickerData is
\* called
runEffect(tk, wl) ==
    LET fresh == [tk EXCEPT !.effect = @ + 1, !.seen = wl]
        shown == IF Len(watchlistSymbolsWithQuotes(wl)) > 0
                 THEN setTickerItems(fresh, fresh.effect) ELSE fresh
    IN  fetchTickerData(
           [shown EXCEPT !.isLoading = IF Len(watchlistSymbolsWithQuotes(wl)) > 0
                                       THEN FALSE ELSE @,
                         !.loadingTimeout = Some(now + LoadingLimit),
                         !.interval = Some(now + TickerPeriod)])

\* The effect of StockTicker runs when the ticker is mounted
TickerMount ==
    /\ ~ticker.mounted
    /\ ticker' = runEffect([ticker EXCEPT !.mounted = TRUE], watchlist)
    /\ UNCHANGED <<now, cache>>
    /\ TickerFrame

\* The watchlist of the store has changed: the cleanup of the effect clears
\* its timers, the effect runs again over the new watchlist; the runs of
\* fetchTickerData that were started go on
TickerRerun ==
    /\ ticker.mounted
    /\ ticker.seen # watchlist
    /\ ticker.started < MaxRuns
    /\ ticker' = runEffect(ticker, watchlist)
    /\ UNCHANGED <<now, cache>>
    /\ TickerFrame

\* The delay before a call is over
DelayOver(k) ==
    /\ ticker.runs[k].phase = "delay"
    /\ ticker.runs[k].wake = Some(now)
    /\ ticker' = race(ticker, k)
    /\ UNCHANGED <<now, cache>>
    /\ TickerFrame

\* The timer of a race fires before the response: the call is abandoned, its
\* request stays in flight
TimeoutOver(k) ==
    /\ ticker.runs[k].phase = "race"
    /\ ticker.runs[k].wake = Some(now)
    /\ ticker' = afterRace([ticker EXCEPT !.abandoned =
                               Append(@, ticker.runs[k].symbols[ticker.runs[k].i])],
                           k, Null, 1)
    /\ UNCHANGED <<now, cache>>
    /\ TickerFrame

\* The response to the call a run awaits arrives before the timer fires
TickerQuoteArrives(k, response) ==
    /\ ticker.runs[k].phase = "race"
    /\ LET result == quoteResult(response)
           symbol == ticker.runs[k].symbols[ticker.runs[k].i]
       IN  /\ cache' = IF result.stored
                       THEN setCache(cache, quoteKey(symbol), result.val[1], now)
                       ELSE cache
           /\ ticker' = afterRace(ticker, k, result.val, 0)
    /\ UNCHANGED now
    /\ TickerFrame

\* The response to an abandoned call arrives: getQuote caches it, nobody
\* awaits it
AbandonedArrives(j, response) ==
    /\ LET result == quoteResult(response)
       IN  cache' = IF result.stored
                    THEN setCache(cache, quoteKey(ticker.abandoned[j]), result.val[1], now)
                    ELSE cache
    /\ ticker' = [ticker EXCEPT !.abandoned = Remove(@, j)]
    /\ UNCHANGED now
    /\ TickerFrame

\* The timer of the loading flag fires
LoadingTimeoutOver ==
    /\ ticker.loadingTimeout = Some(now)
    /\ ticker' = [ticker EXCEPT !.isLoading = FALSE, !.loadingTimeout = Null]
    /\ UNCHANGED <<now, cache>>
    /\ TickerFrame

\* The refresh timer fires: fetchTickerData again
IntervalOver ==
    /\ ticker.started < MaxRuns
    /\ ticker.interval = Some(now)
    /\ ticker' = fetchTickerData([ticker EXCEPT !.interval = Some(now + TickerPeriod)])
    /\ UNCHANGED <<now, cache>>
    /\ TickerFrame

\* When the timers that are set are due
Due ==
    {ticker.runs[k].wake[1] : k \in {j \in 1..Len(ticker.runs) : ticker.runs[j].wake # Null}}
    \cup (IF ticker.loadingTimeout # Null THEN {ticker.loadingTimeout[1]} ELSE {})
    \cup (IF ticker.interval # Null /\ ticker.started < MaxRuns
          THEN {ticker.interval[1]} ELSE {})

Earliest(times) == CHOOSE t \in times : \A u \in times : t <= u

\* Time passes until the next timer is due
Wait ==
    /\ Due # {}
    /\ Earliest(Due) > now
    /\ now' = Earliest(Due)
    /\ UNCHANGED <<storeVars, last, apiVars, viewVars>>

\* The steps of the event loop's timers
TimerNext ==
    \/ \E k \in 1..Len(ticker.runs) : DelayOver(k)
    \/ \E k \in 1..Len(ticker.runs) : TimeoutOver(k)
    \/ LoadingTimeoutOver
    \/ IntervalOver
    \/ Wait

\* Any step of the ticker: it is mounted, a timer fires or time passes, a
\* response arrives (a quote or a failure to the call awaited, a quote to an
\* abandoned one) or never does
TickerNext ==
    \/ TickerMount
    \/ TimerNext
    \/ \E k \in 1..Len(ticker.runs) :
           \E r \in CardQuoteResponses(ticker.runs[k].symbols[ticker.runs[k].i]) :
               TickerQuoteArrives(k, r)
    \/ \E j \in 1..Len(ticker.abandoned) :
           AbandonedArrives(j, Received("Global Quote" :> GlobalQuote(ticker.abandoned[j])))

\* The watchlists the ticker is mounted over: the entries of the given symbols,
\* each with a quote
Quoted(symbols) ==
    [i \in 1..Len(symbols) |->
        [newItem(symbols[i], "n1", 0) EXCEPT
            !.quote = Some(stockQuote(GlobalQuote(symbols[i])))]]

TickerWatchlists ==
    { Quoted(<<>>), Quoted(<< <<"A", "B">> >>), Quoted(MARKET_INDICES \o POPULAR_STOCKS) }

\* When the timers of the page are due: those of the ticker and those of the
\* mounted cards
PageDue == Due \cup {timers[s] : s \in DOMAIN timers}

\* Time passes until the next timer of the page is due; the page is followed
\* until the timer of the loading flag has fired, before any refresh timer does
PageWait ==
    /\ PageDue # {}
    /\ Earliest(PageDue) > now
    /\ Earliest(PageDue) <= LoadingLimit
    /\ now' = Earliest(PageDue)
    /\ UNCHANGED <<storeVars, last, apiVars, viewVars>>

\* Any step of the page that shows the ticker above the watchlist: an entry is
\* added, its card is mounted, the effect of the ticker runs, a timer fires,
\* the upstream answers a call of a card or of the ticker, time passes
PageNext ==
    \/ \E s \in OneSymbol, n \in OneName : addToWatchlist(s, n)
    \/ \E i \in 1..Len(watchlist) : Mount(watchlist[i].symbol)
    \/ \E i \in 1..Len(fetches) :
           QuoteArrives(i, Received("Global Quote" :> GlobalQuote(fetches[i].symbol)))
    \/ \E i \in 1..Len(fetches) :
           SeriesArrives(i, Received(seriesField("daily") :> Ascending(1)))
    \/ TickerMount
    \/ TickerRerun
    \/ \E k \in 1..Len(ticker.runs) : DelayOver(k)
    \/ \E k \in 1..Len(ticker.runs) : TimeoutOver(k)
    \/ LoadingTimeoutOver
    \/ \E k \in 1..Len(ticker.runs) :
           \E r \in CardQuoteResponses(ticker.runs[k].symbols[ticker.runs[k].i]) :
               TickerQuoteArrives(k, r)
    \/ \E j \in 1..Len(ticker.abandoned) :
           AbandonedArrives(j, Received("Global Quote" :> GlobalQuote(ticker.abandoned[j])))
    \/ PageWait

-----------------------------------------------------------------------------
(* SearchBar: the effect that searches for the query when it has not changed *)
(* for a while (components/SearchBar.tsx)                                     *)

\* setTimeout(searchSymbols, 300)
DebounceDelay == 300

\* Bound of the model: the search requests awaiting their response at a time
MaxSearches == 2

\* What the user types
Queries == { <<>>, <<"a">>, <<"a", "b">>, <<"a", "c">> }

\* The timer fires at once
setTimer_AtOnce(t) == Some(t)

\* const debounceTimer = setTimeout(searchSymbols, 300): when it is due
setTimer(t) == Some(t + DebounceDelay)

\* A call of api.searchSymbols: its query, when it was made and when the query
\* had been typed
Searched(query, at, typed) == [query |-> query, at |-> at, typed |-> typed]

\* The message shown for an error
errorText(message) ==
    CASE message = ConfigError ->
             "API key not configured. Please set NEXT_PUBLIC_ALPHAVANTAGE_API_KEY in your .env.local file."
      [] message = "rate limit exceeded" ->
             "API rate limit reached. Please wait a moment and try again."
      [] OTHER -> message

\* results.slice(0, 10)
slice10(results) == SubSeq(results, 1, IF Len(results) < 10 THEN Len(results) ELSE 10)

Later(a, b) == IF a >= b THEN a ELSE b

\* searchSymbols of the effect after its await: the results are shown, with a
\* message when there are none
showResults(sb, call, results) ==
    [sb EXCEPT !.suggestions = slice10(results),
               !.error = IF Len(results) = 0
                         THEN Some("No results found. Try a different search term.")
                         ELSE Null,
               !.shown = Some(call),
               !.latest = Later(@, call.at)]

\* searchSymbols of the effect in its catch block
showError(sb, call, message) ==
    [sb EXCEPT !.suggestions = <<>>,
               !.error = Some(errorText(message)),
               !.shown = Some(call),
               !.latest = Later(@, call.at)]

SearchFrame ==
    UNCHANGED <<storeVars, last, apiKey, pending, done, timers, fetches, merged, ticker>>

\* The effect runs when the search bar is mounted: the timer is set
SearchMount ==
    /\ ~search.mounted
    /\ search' = [search EXCEPT !.mounted = TRUE,
                                !.typed = now,
                                !.debounceTimer = setTimer(now)]
    /\ UNCHANGED <<now, cache>>
    /\ SearchFrame

\* A keystroke changes the query: the cleanup of the effect clears the timer,
\* the effect sets a new one
Type(q) ==
    /\ search.mounted
    /\ q # search.query
    /\ search' = [search EXCEPT
           !.query = q,
           !.typed = now,
           !.replaced = IF search.debounceTimer # Null
                        THEN Some(Searched(search.query, now, search.typed))
                        ELSE @,
           !.debounceTimer = setTimer(now)]
    /\ UNCHANGED <<now, cache>>
    /\ SearchFrame

\* The timer fires: searchSymbols of the effect up to its await
DebounceOver ==
    /\ search.debounceTimer = Some(now)
    /\ LET sb == [search EXCEPT !.debounceTimer = Null]
           call == Searched(search.query, now, search.typed)
           cached == getCached(cache, searchKey(search.query), now)
       IN  IF Len(search.query) < 2
           THEN search' = [sb EXCEPT !.suggestions = <<>>, !.error = Null,
                                     !.shown = Null]
           ELSE IF missingKey(apiKey)
           THEN search' = showError([sb EXCEPT !.issued = Some(call)], call, ConfigError)
           ELSE IF cached # Null
           THEN search' = showResults([sb EXCEPT !.issued = Some(call)], call, cached[1])
           ELSE /\ Len(search.requests) < MaxSearches
                /\ search' = [sb EXCEPT !.issued = Some(call),
                                        !.error = Null,
                                        !.requests = Append(@, call)]
    /\ UNCHANGED <<now, cache>>
    /\ SearchFrame

\* The response to a search request arrives: searchSymbols of the client
\* caches and returns the results or throws, the effect shows them or the error
SearchArrives(i, response) ==
    /\ LET result == searchResult(response)
           call == search.requests[i]
           sb == [search EXCEPT !.requests = Remove(@, i)]
       IN  /\ cache' = IF result.stored
                       THEN setCache(cache, searchKey(call.query), result.val[1], now)
                       ELSE cache
           /\ search' = IF result.throws
                        THEN showError(sb, call, result.message)
                        ELSE showResults(sb, call, result.val[1])
    /\ UNCHANGED now
    /\ SearchFrame

\* Time passes, up to the time the timer is due
SearchTimes ==
    {0, DebounceDelay - 1, DebounceDelay, 2 * DebounceDelay - 1, 2 * DebounceDelay}

SearchAdvance ==
    /\ \E t \in SearchTimes :
           /\ t > now
           /\ search.debounceTimer # Null => search.debounceTimer[1] >= t
           /\ now' = t
    /\ UNCHANGED <<storeVars, last, apiVars, viewVars>>

\* Any step of the search bar: it is mounted, a key is struck, the timer
\* fires, a response arrives, time passes
SearchNext ==
    \/ SearchMount
    \/ \E q \in Queries : Type(q)
    \/ DebounceOver
    \/ \E i \in 1..Len(search.requests) : \E r \in SearchResponses : SearchArrives(i, r)
    \/ SearchAdvance

-----------------------------------------------------------------------------
(* Specifications *)

InitStore ==
    /\ watchlist = <<>>
    /\ selectedSymbol = Null
    /\ isLoading = FALSE
    /\ error = Null
    /\ storage = [available |-> TRUE, slot |-> Undefined]
    /\ last = NoCall

InitClient ==
    /\ cache = <<>>
    /\ pending = <<>>
    /\ done = NoStep
    /\ timers = <<>>
    /\ fetches = <<>>
    /\ merged = NoRun
    /\ ticker = NoTicker
    /\ search = NoSearch

\* The store from its construction, localStorage holding no slot yet, beside a
\* client that is not called
Init ==
    /\ InitStore
    /\ InitClient
    /\ apiKey = "demo"
    /\ now = 0

\* The store under calls for two tickers in every spelling
Next == StoreNext(Symbols, OneName)

Spec == Init /\ [][Next]_vars

\* The store under calls for one ticker in every spelling, with two names
NextAdd == StoreNext(OneTicker, Names)

SpecAdd == Init /\ [][NextAdd]_vars

\* The store under additions and removals of three tickers and the other calls
\* for one of them in two spellings
ThreeTickers == { <<"A", "B">>, <<"B">>, <<"C">> }
Spellings == { <<"c">>, <<"C">> }

NextOrder == StoreCallsOn(ThreeTickers, Spellings, OneName, Quotes)

SpecOrder == Init /\ [][NextOrder]_vars

\* The store with or without a localStorage, under additions and removals of
\* two tickers and the other calls for one of them, with the quotes of full
\* and of partial responses, the page loaded again at any time
TwoTickers == { <<"a", "b">>, <<"C">> }

InitPersist ==
    /\ watchlist = initialState.watchlist
    /\ selectedSymbol = initialState.selectedSymbol
    /\ isLoading = initialState.isLoading
    /\ error = initialState.error
    /\ storage \in {[available |-> a, slot |-> Undefined] : a \in BOOLEAN}
    /\ last = NoCall
    /\ InitClient
    /\ apiKey = "demo"
    /\ now = 0

NextPersist ==
    \/ StoreCallsOn(TwoTickers, OneSymbol, OneName, Quotes \cup PartialQuotes)
    \/ Restart

SpecPersist == InitPersist /\ [][NextPersist]_vars

\* The client from its construction, with or without an API key in the
\* environment, beside a store that is not called
InitApi ==
    /\ InitStore
    /\ InitClient
    /\ apiKey \in ApiKeys
    /\ now = 0

SpecApi == InitApi /\ [][ApiNext]_vars

\* getQuote of the client, the upstream answering with quotes that may lack a
\* field
SpecQuote == InitApi /\ [][QuoteNext]_vars

\* The client built without an API key, the upstream refusing its requests
InitNoKey ==
    /\ InitStore
    /\ InitClient
    /\ apiKey = ""
    /\ now = 0

SpecNoKey == InitNoKey /\ [][RefusedNext]_vars

\* getTimeSeries of the client, the upstream answering with histories of up
\* to MaxDates dates
SpecSeries == InitApi /\ [][SeriesNext]_vars

\* The page with the ticker and the watchlist in its first seconds, from an
\* empty watchlist
SpecPage == Init /\ [][PageNext]_vars

\* The search bar, with or without an API key in the environment
SpecSearch == InitApi /\ [][SearchNext]_vars

\* The watchlist page: the store, the client and the cards of the entries
SpecCard == Init /\ [][CardNext]_vars

\* The ticker over a watchlist read from localStorage, beside a store that is
\* not called
InitTicker ==
    /\ \E wl \in TickerWatchlists :
           storage = setItem([available |-> TRUE, slot |-> Undefined],
                             [initialState EXCEPT !.watchlist = wl])
    /\ watchlist = hydrate(storage).watchlist
    /\ selectedSymbol = hydrate(storage).selectedSymbol
    /\ isLoading = hydrate(storage).isLoading
    /\ error = hydrate(storage).error
    /\ last = NoCall
    /\ InitClient
    /\ apiKey = "demo"
    /\ now = 0

\* The timers of the event loop fire when they are due; no response is ever
\* bound to arrive
FairTicker == InitTicker /\ [][TickerNext]_vars /\ WF_vars(TimerNext)

-----------------------------------------------------------------------------
(* Properties of the watchlist store *)

Merges == {"updateQuote", "updateTimeSeries", "updateOverview"}

\* The symbol argument of the store call executed last
Arg(call) == call.symbol[1]

\* Whether symbol sym is written in capital letters only
IsUpper(sym) == \A i \in 1..Len(sym) : sym[i] \in {"A", "B", "C"}

\* The indices of the entries of wl with symbol sym
At(wl, sym) == {i \in 1..Len(wl) : wl[i].symbol = sym}

\* C1: add(s, n) of a symbol not yet in the watchlist followed at once by
\* add(s2, n2), s2 the same symbol in any letter case: the second add leaves
\* the watchlist as it is, with exactly one entry for the uppercase of s, and
\* that entry carries the name n of the first add.
C1_AddTwice ==
    [][ ( /\ last.op = "addToWatchlist" /\ ~last.found
          /\ last'.op = "addToWatchlist"
          /\ toUpperCase(Arg(last')) = toUpperCase(Arg(last)) )
        => ( /\ watchlist' = watchlist
             /\ Cardinality(At(watchlist', toUpperCase(Arg(last)))) = 1
             /\ \A i \in At(watchlist', toUpperCase(Arg(last))) :
                    watchlist'[i].name = last.arg[1] ) ]_vars

\* C1 happens: an add in another spelling and with another name than the
\* entry's has found the entry, which keeps the earlier name.
C1_Witness ==
    /\ last.op = "addToWatchlist" /\ last.found
    /\ Arg(last) # toUpperCase(Arg(last))
    /\ \E i \in At(watchlist, toUpperCase(Arg(last))) :
           watchlist[i].name # last.arg[1]

\* C2: in every state reached from the empty watchlist no two entries have the
\* same symbol and every entry's symbol is uppercase.
C2_UniqueUpper ==
    /\ \A i, j \in 1..Len(watchlist) :
           watchlist[i].symbol = watchlist[j].symbol => i = j
    /\ \A i \in 1..Len(watchlist) : IsUpper(watchlist[i].symbol)

\* C2 happens: two entries are in the watchlist and an add in a lowercase
\* spelling has just found its entry.
C2_Witness ==
    /\ Len(watchlist) = 2
    /\ last.op = "addToWatchlist" /\ last.found
    /\ ~IsUpper(Arg(last))

\* C3: remove(s) called while the selection is the uppercase of s leaves the
\* selection none.
C3_RemoveClearsSelection ==
    [][ ( /\ last'.op = "removeFromWatchlist"
          /\ selectedSymbol = Some(toUpperCase(Arg(last'))) )
        => selectedSymbol' = Null ]_vars

\* C4: a merge (updateQuote, updateTimeSeries, updateOverview) for a symbol
\* whose uppercase is not in the watchlist leaves the watchlist sequence as it
\* is: length, entries, fields, timestamps and order.
C4_MergeAbsent ==
    [][ ( /\ last'.op \in Merges
          /\ \A i \in 1..Len(watchlist) :
                 watchlist[i].symbol # toUpperCase(Arg(last')) )
        => watchlist' = watchlist ]_vars

\* C4 happens: a merge for a symbol not in the watchlist has run on a watchlist
\* holding an entry stamped before the clock advanced.
C4_Witness ==
    /\ last.op \in Merges /\ ~last.found
    /\ \E i \in 1..Len(watchlist) : watchlist[i].lastUpdated < now

\* C5: lookup returns the entry whose symbol is the uppercase of its argument,
\* the same for every spelling, and absent when there is none; it changes
\* nothing in the store.
C5_Lookup ==
    /\ [] ( /\ last.op = "getWatchlistItem" =>
                /\ \A i \in At(watchlist, toUpperCase(Arg(last))) :
                       last.ret = Some(watchlist[i])
                /\ At(watchlist, toUpperCase(Arg(last))) = {} =>
                       last.ret = Undefined
            /\ \A s1, s2 \in Symbols :
                   toUpperCase(s1) = toUpperCase(s2) =>
                       getItem(watchlist, s1) = getItem(watchlist, s2) )
    /\ [][ last'.op = "getWatchlistItem" => UNCHANGED storeVars ]_vars

\* C5 happens: a lookup in a spelling that is not the entry's has returned the
\* entry.
C5_Witness ==
    /\ last.op = "getWatchlistItem"
    /\ Arg(last) # toUpperCase(Arg(last))
    /\ last.ret # Undefined
    /\ last.ret[1].symbol = toUpperCase(Arg(last))

-----------------------------------------------------------------------------
(* Properties of the Alpha Vantage client *)

\* The step is a method starting: it returns from the cache or sends its request
Starts(op) ==
    /\ done'.op = op
    /\ \/ done'.step = "return" /\ done'.from = "cache"
       \/ done'.step = "request"

Age(key) == now - cache[key].timestamp

\* A read of a key now gives the data of its entry while the entry is younger
\* than CACHE_DURATION, and nothing for an older entry or for no entry
CacheReads ==
    /\ \A k \in DOMAIN cache :
           getCached(cache, k, now) =
               IF Age(k) < CACHE_DURATION THEN Some(cache[k].data) ELSE Null
    /\ getCached(cache, <<"none">>, now) = Null

\* A method that starts returns the data of the entry of its key that is
\* younger than CACHE_DURATION, and sends its request when there is none
MethodReads ==
    \A op \in {"getQuote", "getTimeSeries", "getCompanyOverview", "searchSymbols"} :
        Starts(op) /\ done'.from # "config" =>
            IF done'.key \in DOMAIN cache /\ Age(done'.key) < CACHE_DURATION
            THEN /\ done'.step = "return"
                 /\ done'.val = Some(cache[done'.key].data)
                 /\ pending' = pending
            ELSE done'.step = "request"

\* An entry changes only when a method caches what it returns, under its key
\* and stamped with the time of the call; no entry is ever removed
MethodStores ==
    /\ DOMAIN cache \subseteq DOMAIN cache'
    /\ \A k \in DOMAIN cache' :
           (k \notin DOMAIN cache \/ cache'[k] # cache[k]) =>
               /\ done'.step = "return" /\ done'.from = "upstream"
               /\ k = done'.key
               /\ cache'[k] = [data |-> done'.val[1], timestamp |-> now]

\* C6: the cache round trip with expiry.  What a method stores under a key at
\* time t is what every read of the key returns at a time t' with
\* t' - t < CACHE_DURATION (60 seconds); at t' - t >= CACHE_DURATION the read
\* is a miss, although the entry is still in the map.
C6_CacheRoundTrip ==
    /\ []CacheReads
    /\ [][MethodReads /\ MethodStores]_vars

\* A read missed at an age of exactly CACHE_DURATION, the entry still there
C6_Witness ==
    /\ done.step = "request"
    /\ done.key \in DOMAIN cache
    /\ Age(done.key) = CACHE_DURATION

\* The symbol a quote key was built from
KeySymbol(key) == Tail(key)

\* C7: getQuote canonicalizes the symbol before the cache lookup.  When
\* getQuote(s') starts while the cache holds a quote younger than
\* CACHE_DURATION for a symbol s that differs from s' at most in letter case,
\* it returns that quote and sends no request.
C7_QuoteCacheIgnoresCase ==
    [][ \A k \in DOMAIN cache :
            /\ Starts("getQuote")
            /\ Head(k) = "quote_"
            /\ toUpperCase(KeySymbol(k)) = toUpperCase(KeySymbol(done'.key))
            /\ Age(k) < CACHE_DURATION
            => /\ done'.step = "return"
               /\ done'.val = Some(cache[k].data)
               /\ pending' = pending ]_vars

Total == {"getQuote", "getTimeSeries", "getCompanyOverview"}

\* The steps of the three methods on a response return, and return nothing
\* (getTimeSeries: the empty array) and cache nothing when the response is a
\* failure: a rejected request, an error marker, no envelope, no Symbol
TotalSteps ==
    \A i \in 1..Len(pending) :
        /\ \A r \in QuoteResponses(pending[i].symbol) :
               getQuoteResponse(i, r) =>
                   /\ done'.step = "return"
                   /\ r \in Failures => done'.val = Null /\ cache' = cache
        /\ \A r \in SeriesResponses(pending[i].interval) :
               getTimeSeriesResponse(i, r) =>
                   /\ done'.step = "return"
                   /\ done'.val # Null
                   /\ r \in Failures => done'.val = Some(<<>>) /\ cache' = cache
        /\ \A r \in OverviewResponses(pending[i].symbol) :
               getCompanyOverviewResponse(i, r) =>
                   /\ done'.step = "return"
                   /\ (r \in Failures \/ "Symbol" \notin DOMAIN r.data) =>
                          done'.val = Null /\ cache' = cache

\* C8: getQuote, getTimeSeries and getCompanyOverview are total.  Whatever the
\* upstream answers (an "Error Message" or a "Note", a rejected request, no
\* envelope, an overview without "Symbol") they throw nothing; getQuote and
\* getCompanyOverview return null and getTimeSeries returns the empty array,
\* never null.
C8_Total ==
    /\ [](done.op \in Total => done.step # "throw")
    /\ [](done.op = "getTimeSeries" /\ done.step = "return" => done.val # Null)
    /\ [][TotalSteps]_vars

\* getQuote returned null for a response of the upstream
C8_Witness ==
    /\ done.op = "getQuote"
    /\ done.step = "return"
    /\ done.from = "upstream"
    /\ done.val = Null

\* The texts of the error markers a JSON object carries
Markers(data) ==
    {data[f] : f \in {g \in {"Error Message", "Note"} : Truthy(data, g)}}

\* C9: searchSymbols propagates upstream failures.  On a response with an
\* "Error Message" or a "Note" it throws an error whose message is the text of
\* the marker, and on a rejected request it throws the error of the request;
\* it returns nothing then, the empty array included, and caches nothing.
C9_SearchPropagates ==
    [][ \A i \in 1..Len(pending) : \A r \in SearchResponses :
            searchSymbolsResponse(i, r) =>
                /\ ~r.ok =>
                       /\ done'.step = "throw"
                       /\ done'.message = r.err
                       /\ cache' = cache
                /\ r.ok /\ Markers(r.data) # {} =>
                       /\ done'.step = "throw"
                       /\ done'.message \in Markers(r.data)
                       /\ Truthy(r.data, "Error Message") =>
                              done'.message = r.data["Error Message"]
                       /\ cache' = cache ]_vars

\* searchSymbols threw the text of the "Error Message" it received
C9_Witness ==
    /\ done.op = "searchSymbols"
    /\ done.step = "throw"
    /\ done.from = "upstream"
    /\ done.message = "invalid"

\* C10: without an API key every call of searchSymbols throws the error of
\* the configuration at once: it has looked nothing up, sends no request and
\* caches nothing.
C10_SearchNeedsKey ==
    apiKey = "" =>
        /\ done.op = "searchSymbols" =>
               /\ done.step = "throw"
               /\ done.from = "config"
               /\ done.message = ConfigError
        /\ \A i \in 1..Len(pending) : pending[i].op # "searchSymbols"
        /\ \A k \in DOMAIN cache : Head(k) # "search_"

\* searchSymbols threw for the missing key while the cache held entries of
\* the other methods
C10_Witness ==
    /\ apiKey = ""
    /\ done.op = "searchSymbols"
    /\ done.step = "throw"
    /\ done.message = ConfigError
    /\ cache # <<>>

Min(a, b) == IF a <= b THEN a ELSE b

\* The dates of a history that have fewer than n later dates in it
Latest(dates, n) == {d \in dates : Cardinality({e \in dates : e > d}) < n}

\* What getTimeSeries returns for a history: the points of the 30 latest
\* dates, or of all when there are no more, each date once and in ascending
\* order, each point the one mapped from the entry of its date
Capped(entries, points) ==
    LET dates == {entries[j].date : j \in 1..Len(entries)}
    IN  /\ Len(points) = Min(Len(entries), 30)
        /\ \A j \in 1..(Len(points) - 1) :
               getTime(points[j].date) < getTime(points[j + 1].date)
        /\ {points[j].date : j \in 1..Len(points)} = Latest(dates, 30)
        /\ \A j \in 1..Len(points) :
               \E k \in 1..Len(entries) : points[j] = seriesPoint(entries[k])

\* C11: for a history of n dates getTimeSeries returns min(n, 30) points, those
\* of the 30 most recent dates when n > 30 and all otherwise, in strictly
\* ascending order of date whatever the order of the upstream mapping; that
\* is also what it caches.
C11_HistoryCap ==
    [][ done'.op = "getTimeSeries" /\ done'.from = "upstream" =>
            \A i \in 1..Len(pending) : \A r \in HistoryResponses :
                getTimeSeriesResponse(i, r) =>
                    /\ done'.step = "return"
                    /\ Capped(r.data[seriesField("daily")], done'.val[1])
                    /\ cache'[done'.key].data = done'.val[1] ]_vars

\* getTimeSeries returned 30 points, the oldest of them the date 3: the
\* history had 32 dates
C11_Witness ==
    /\ done.op = "getTimeSeries"
    /\ done.step = "return"
    /\ done.from = "upstream"
    /\ Len(done.val[1]) = 30
    /\ done.val[1][1].date = 3

-----------------------------------------------------------------------------
(* Properties of the watchlist store, continued *)

\* The step leaves the watchlist with the field of the entry of symbol set to
\* value and its lastUpdated to now, the rest of that entry and every other
\* entry as they were, and selectedSymbol, isLoading and error too
MergeFrame(symbol, field, value) ==
    /\ Len(watchlist') = Len(watchlist)
    /\ \A i \in 1..Len(watchlist) :
           IF watchlist[i].symbol = toUpperCase(symbol)
           THEN /\ watchlist'[i][field] = Some(value)
                /\ watchlist'[i].lastUpdated = now
                /\ \A f \in DOMAIN watchlist[i] \ {field, "lastUpdated"} :
                       watchlist'[i][f] = watchlist[i][f]
                /\ DOMAIN watchlist'[i] = DOMAIN watchlist[i]
           ELSE watchlist'[i] = watchlist[i]
    /\ UNCHANGED <<selectedSymbol, isLoading, error>>

\* C19: updateQuote, updateTimeSeries and updateOverview for a symbol that is
\* in the watchlist, given in any letter case, replace the quote, the
\* timeSeries or the overview of its entry and set its lastUpdated to the time
\* of the call; the symbol, the name and the two other fields of the entry,
\* every other entry, selectedSymbol, isLoading and error stay as they were.
C19_MergeFrame ==
    [][last'.op \in Merges /\ Present(watchlist, Arg(last')) =>
          /\ last'.op = "updateQuote" =>
                 \A q \in Quotes :
                     updateQuote(Arg(last'), q) => MergeFrame(Arg(last'), "quote", q)
          /\ last'.op = "updateTimeSeries" =>
                 \A ts \in Series :
                     updateTimeSeries(Arg(last'), ts) =>
                         MergeFrame(Arg(last'), "timeSeries", ts)
          /\ last'.op = "updateOverview" =>
                 \A o \in Overviews :
                     updateOverview(Arg(last'), o) =>
                         MergeFrame(Arg(last'), "overview", o)]_vars

\* updateTimeSeries, given the ticker in lower case, has set the series of the
\* second of three entries, which held a quote and an overview, at a later
\* time than the entries were created
C19_Witness ==
    /\ last.op = "updateTimeSeries"
    /\ Arg(last) = <<"c">>
    /\ Len(watchlist) = 3
    /\ watchlist[2].symbol = <<"C">>
    /\ watchlist[2].quote # Undefined
    /\ watchlist[2].overview # Undefined
    /\ watchlist[2].timeSeries # Undefined
    /\ watchlist[2].lastUpdated = now
    /\ watchlist[1].lastUpdated < now

\* The symbols of a watchlist, in its order
SymbolsOf(wl) == [i \in 1..Len(wl) |-> wl[i].symbol]

\* The entries that are in both watchlists come in the same order in both
SameOrder(before, after) ==
    \A i, j \in 1..Len(before) : \A k, l \in 1..Len(after) :
        /\ i < j
        /\ after[k].symbol = before[i].symbol
        /\ after[l].symbol = before[j].symbol
        => k < l

\* C20: insertion order is kept.  addToWatchlist of a symbol that is not in the
\* watchlist puts its entry at the end, after the entries there were; no call
\* changes the order in which the entries that stay come.
C20_InsertionOrder ==
    [][/\ SameOrder(watchlist, watchlist')
       /\ last'.op = "addToWatchlist" /\ ~Present(watchlist, Arg(last')) =>
              /\ Len(watchlist') = Len(watchlist) + 1
              /\ watchlist'[Len(watchlist')].symbol = toUpperCase(Arg(last'))
              /\ SymbolsOf(SubSeq(watchlist', 1, Len(watchlist))) =
                     SymbolsOf(watchlist)]_vars

\* The second of three entries was removed and the two others stay in their
\* order
C20_Witness ==
    /\ last.op = "removeFromWatchlist"
    /\ last.found
    /\ SymbolsOf(watchlist) = << <<"C">>, <<"A", "B">> >>

-----------------------------------------------------------------------------
(* Properties of persistence *)

\* The slot as written for the watchlist in memory
Snapshot(wl) == json([watchlist |-> wl])

\* C12: after every call that changes the watchlist (addToWatchlist,
\* removeFromWatchlist, updateQuote, updateTimeSeries, updateOverview) the slot
\* holds the snapshot of the watchlist in memory, that is its serialization;
\* whatever was called, the slot holds the watchlist only, never
\* selectedSymbol, isLoading or error.
C12_SlotFollowsWatchlist ==
    /\ [](storage.slot # Undefined =>
              /\ storage.slot[1] = Snapshot(watchlist)
              /\ DOMAIN storage.slot[1] = {"watchlist"})
    /\ [][storage.available /\ watchlist' # watchlist /\ last'.op # "restart" =>
              storage'.slot = Some(Snapshot(watchlist'))]_vars

\* The slot is written while the store holds two entries, a selection, the
\* loading flag and an error
C12_Witness ==
    /\ storage.slot # Undefined
    /\ Len(watchlist) = 2
    /\ watchlist[1].quote # Undefined
    /\ selectedSymbol # Null
    /\ isLoading
    /\ error # Null
    /\ last.op = "updateQuote"

\* C13: the restart round trip.  When the page is loaded again with the slot
\* there, the watchlist the store starts with is the watchlist before (the
\* same entries in the same order), selectedSymbol is null, isLoading false
\* and error null; without localStorage the store starts empty.
C13_RestartRoundTrip ==
    [][last'.op = "restart" =>
          /\ storage.available /\ storage.slot # Undefined => watchlist' = watchlist
          /\ ~storage.available => watchlist' = <<>>
          /\ selectedSymbol' = Null
          /\ isLoading' = FALSE
          /\ error' = Null]_vars

-----------------------------------------------------------------------------
(* Properties of the client, continued *)

\* A quote with every field there: a symbol, and numbers that are not NaN
Whole(q) ==
    /\ q.symbol # Undefined
    /\ q.name # Undefined
    /\ \A x \in {q.price, q.change, q.changePercent, q.volume, q.high, q.low,
                  q.open, q.previousClose} : ~x.nan

\* C14: for a quote response in which one of the fields getQuote reads is
\* absent, getQuote returns null and caches nothing; no quote with a missing or
\* NaN field is ever returned or cached.
C14_PartialQuoteFails ==
    /\ [](\A k \in DOMAIN cache : Whole(cache[k].data))
    /\ [](done.op = "getQuote" /\ done.step = "return" /\ done.val # Null =>
              Whole(done.val[1]))
    /\ [][\A i \in 1..Len(pending) :
              \A r \in PartialQuoteResponses(pending[i].symbol) :
                  getQuoteResponse(i, r) =>
                      /\ done'.step = "return"
                      /\ done'.val = Null
                      /\ cache' = cache]_vars

-----------------------------------------------------------------------------
(* Properties of the views *)

\* C16: under every interleaving of additions, removals and completions of
\* the cards' fetches, a merge leaves the symbols of the watchlist as they
\* were, also when it completes after its symbol was removed; only
\* addToWatchlist and removeFromWatchlist change them.
C16_MergeNeverAdds ==
    [][/\ last'.op \in Merges => SymbolsOf(watchlist') = SymbolsOf(watchlist)
       /\ SymbolsOf(watchlist') # SymbolsOf(watchlist) =>
              last'.op \in {"addToWatchlist", "removeFromWatchlist"}]_vars

\* A run of fetchData started on mount finished, with a quote from the
\* upstream, after the entry of its symbol was removed, and the watchlist
\* is empty
C16_Witness ==
    /\ merged.origin = "mount"
    /\ merged.quote.from = "upstream"
    /\ merged.quote.val # Null
    /\ last.op \in Merges
    /\ last.symbol = Some(merged.symbol)
    /\ ~last.found
    /\ watchlist = <<>>

\* C18: the quote merged by a run of fetchData that the refresh timer started
\* was obtained from the upstream by that run, not read from the cache.
C18_TickFetchesUpstream ==
    merged.origin = "timer" /\ merged.quote.val # Null =>
        merged.quote.from = "upstream"

\* C17: with the timers firing when they are due, every run of
\* fetchTickerData that was started finishes, whether the responses to its
\* calls arrive or never do, and the loading flag is then false; once a run
\* has finished the flag stays false.
C17_LoopTerminates ==
    /\ \A n \in 1..MaxRuns :
           (ticker.started >= n) ~> (ticker.finished >= n /\ ~ticker.isLoading)
    /\ [](ticker.finished >= 1 => ~ticker.isLoading)

\* A run finished whose calls, two or more, were all abandoned at the timeout,
\* their requests still in flight
C17_Witness ==
    /\ ticker.ended # Null
    /\ ticker.ended[1].calls >= 2
    /\ ticker.ended[1].timedOut = ticker.ended[1].calls
    /\ Len(ticker.abandoned) >= ticker.ended[1].calls
    /\ ticker.finished >= 1
    /\ ~ticker.isLoading

-----------------------------------------------------------------------------
(* Frames of the store's setters and of removeFromWatchlist *)

\* C21: setSelectedSymbol sets the selection to its argument, in the
\* watchlist or not, and leaves the watchlist, isLoading and error as they
\* were; setLoading leaves the watchlist, the selection and error as they
\* were, setError the watchlist, the selection and isLoading.
C21_SettersFrame ==
    [][/\ last'.op = "setSelectedSymbol" =>
              /\ selectedSymbol' = last'.symbol
              /\ UNCHANGED <<watchlist, isLoading, error>>
       /\ last'.op = "setLoading" => UNCHANGED <<watchlist, selectedSymbol, error>>
       /\ last'.op = "setError" => UNCHANGED <<watchlist, selectedSymbol, isLoading>>]_vars

\* "c" was selected while the watchlist, not empty, does not hold C, the
\* loading flag and an error being set
C21_Witness ==
    /\ last.op = "setSelectedSymbol"
    /\ selectedSymbol = Some(<<"c">>)
    /\ ~last.found
    /\ watchlist # <<>>
    /\ isLoading
    /\ error # Null

-----------------------------------------------------------------------------
(* The order of the merges *)

\* The three fields of an entry that the merges write
Merged(item) == <<item.quote, item.timeSeries, item.overview>>

\* The entry of a symbol that the watchlist holds
Held(wl, sym) == wl[CHOOSE i \in 1..Len(wl) : wl[i].symbol = sym]

\* C23: a merge for a symbol the watchlist holds leaves the merged value in
\* that field of that symbol's entry, whatever the field held, and leaves the
\* entries of the other symbols as they were; between two merges no other
\* store call changes the quote, the history or the profile of an entry, and
\* a new entry starts with none of them.  So each field holds the value of
\* the merge applied last to it since the entry was added.
C23_LastMergeWins ==
    [][/\ last'.op \in Merges /\ Present(watchlist, Arg(last')) =>
              /\ last'.op = "updateQuote" =>
                     \A q \in Quotes \cup PartialQuotes :
                         updateQuote(Arg(last'), q) =>
                             Held(watchlist', toUpperCase(Arg(last'))).quote = Some(q)
              /\ last'.op = "updateTimeSeries" =>
                     \A ts \in Series :
                         updateTimeSeries(Arg(last'), ts) =>
                             Held(watchlist', toUpperCase(Arg(last'))).timeSeries = Some(ts)
              /\ last'.op = "updateOverview" =>
                     \A o \in Overviews :
                         updateOverview(Arg(last'), o) =>
                             Held(watchlist', toUpperCase(Arg(last'))).overview = Some(o)
              /\ Len(watchlist') = Len(watchlist)
              /\ \A i \in 1..Len(watchlist) :
                     watchlist[i].symbol # toUpperCase(Arg(last')) =>
                         watchlist'[i] = watchlist[i]
       /\ last'.op \notin Merges \cup {"restart"} =>
              \A i \in 1..Len(watchlist') :
                  IF \E j \in 1..Len(watchlist) : watchlist[j].symbol = watchlist'[i].symbol
                  THEN Merged(watchlist'[i]) =
                           Merged(Held(watchlist, watchlist'[i].symbol))
                  ELSE Merged(watchlist'[i]) = <<Undefined, Undefined, Undefined>>]_vars

\* The quote of a partial response was merged last into the entry of AB, which
\* has a history too, beside the entry of C, which has neither
C23_Witness ==
    /\ last.op = "updateQuote"
    /\ Len(watchlist) = 2
    /\ \E i, j \in 1..2 :
           /\ watchlist[i].symbol = <<"A", "B">>
           /\ watchlist[i].quote \in {Some(q) : q \in PartialQuotes}
           /\ watchlist[i].timeSeries # Undefined
           /\ watchlist[j].symbol = <<"C">>
           /\ Merged(watchlist[j]) = <<Undefined, Undefined, Undefined>>

-----------------------------------------------------------------------------
(* Stale entries and failures in the cache *)

\* The entry of key k is older than CACHE_DURATION or as old
Expired(k) == k \in DOMAIN cache /\ Age(k) >= CACHE_DURATION

\* What a method gives its caller when it has no data
Nothing == {Null, Some(<<>>)}

\* C22: an expired entry stays in the cache: a read of its key does not
\* return it and does not remove it (the request is sent), only a fetch that
\* succeeds for its key replaces it, by the new data stamped with the time
\* of the response, and a fetch that fails leaves it in place and gives the
\* caller nothing, or throws, never the stale data.
C22_StaleEntryStays ==
    [][\A k \in DOMAIN cache :
           Expired(k) =>
               /\ k \in DOMAIN cache'
               /\ done'.key = k /\ Starts(done'.op) =>
                      /\ done'.step = "request"
                      /\ cache' = cache
               /\ cache'[k] # cache[k] =>
                      /\ done'.key = k
                      /\ done'.step = "return"
                      /\ done'.from = "upstream"
                      /\ done'.val \notin Nothing
                      /\ cache'[k] = [data |-> done'.val[1], timestamp |-> now']
               /\ (done'.key = k /\ done'.from = "upstream" /\ cache'[k] = cache[k]) =>
                      \/ done'.step = "throw"
                      \/ done'.step = "return" /\ done'.val \in Nothing]_vars

\* getQuote returned null on a failed refetch while the cache holds the
\* expired quote of its key
C22_Witness ==
    /\ done.op = "getQuote"
    /\ done.step = "return"
    /\ done.from = "upstream"
    /\ done.val = Null
    /\ Expired(done.key)

\* The responses with which a method fails: a rejected request, an error
\* marker, no data (no envelope, no price, no series, no Symbol), no match
FailedQuote(r) == r \in Failures \/ r = Received("Global Quote" :> EmptyObject)
FailedSeries(r) == r \in Failures
FailedOverview(r) == r \in Failures \/ "Symbol" \notin DOMAIN r.data
FailedSearch(r) == r \in Failures \/ r = Received("bestMatches" :> <<>>)

\* A method ended on a response without data for its caller
EndedInFailure(step) ==
    /\ step.from = "upstream"
    /\ \/ step.step = "throw"
       \/ step.step = "return" /\ step.val \in Nothing

\* C25: a call of getQuote, getTimeSeries, getCompanyOverview or
\* searchSymbols that ends on an error marker, a rejected request, missing
\* data or an empty list of matches leaves the cache as it was, and the next
\* call of the method for the same key sends a request, unless a call that
\* overlapped the failed one has stored a result for the key that is fresh.
C25_FailuresNotCached ==
    [][/\ \A i \in 1..Len(pending) :
              /\ \A r \in QuoteResponses(pending[i].symbol) :
                     FailedQuote(r) /\ getQuoteResponse(i, r) => cache' = cache
              /\ \A r \in SeriesResponses(pending[i].interval) :
                     FailedSeries(r) /\ getTimeSeriesResponse(i, r) => cache' = cache
              /\ \A r \in OverviewResponses(pending[i].symbol) :
                     FailedOverview(r) /\ getCompanyOverviewResponse(i, r) =>
                         cache' = cache
              /\ \A r \in SearchResponses :
                     FailedSearch(r) /\ searchSymbolsResponse(i, r) => cache' = cache
       /\ (EndedInFailure(done) /\ done'.op = done.op /\ done'.key = done.key
              /\ Starts(done'.op) /\ getCached(cache, done.key, now) = Null) =>
              done'.step = "request"]_vars

\* getCompanyOverview ended on a failure, null returned: the cache holds what
\* other calls stored and nothing for its key
C25_Witness ==
    /\ done.op = "getCompanyOverview"
    /\ EndedInFailure(done)
    /\ done.val = Null
    /\ done.key \notin DOMAIN cache
    /\ cache # <<>>

-----------------------------------------------------------------------------
(* The history of an entry when a fetch of it fails *)

\* C27: when a run of fetchData finishes whose getTimeSeries failed (the
\* empty array came back from the upstream call), the history the entry of
\* its symbol held, not empty, is still there.
C27_FailedHistoryKeeps ==
    [][(/\ last'.op = "updateTimeSeries"
        /\ merged'.series.from = "upstream"
        /\ merged'.series.val = Some(<<>>)
        /\ Len(watchlist') = Len(watchlist)) =>
          \A i \in 1..Len(watchlist) :
              (/\ watchlist[i].symbol = merged'.symbol
               /\ watchlist[i].timeSeries \notin {Undefined, Some(<<>>)}) =>
                  watchlist'[i].timeSeries = watchlist[i].timeSeries]_vars

-----------------------------------------------------------------------------
(* Properties of the search bar *)

\* C24: the search bar calls searchSymbols only for the query that is in the
\* input, of 2 characters or more, and that was typed DebounceDelay (300 ms)
\* ago or earlier and not changed since; no call is made for a shorter query
\* or for one that a keystroke replaced before that.
C24_Debounced ==
    [][search'.issued # search.issued =>
          /\ Len(search'.issued[1].query) >= 2
          /\ search'.issued[1].query = search.query
          /\ search'.issued[1].typed = search.typed
          /\ search'.issued[1].at = now
          /\ now - search.typed >= DebounceDelay
          /\ search.debounceTimer = Some(now)]_vars

\* "ab" was replaced 299 ms after it was typed and no call was made for it;
\* the call was made for the query that replaced it, 300 ms later
C24_Witness ==
    /\ search.replaced # Null
    /\ search.issued # Null
    /\ search.replaced[1].query = <<"a", "b">>
    /\ search.replaced[1].at - search.replaced[1].typed = DebounceDelay - 1
    /\ search.issued[1].query = <<"a", "c">>
    /\ search.issued[1].typed = search.replaced[1].at
    /\ search.issued[1].at = search.issued[1].typed + DebounceDelay

\* C28: the response that is displayed (suggestions or error) is never the
\* one to a request sent before a request whose response has arrived.
C28_SuggestionsOfLatest ==
    search.shown # Null => search.shown[1].at >= search.latest

-----------------------------------------------------------------------------
(* Properties of the page: the ticker beside the cards *)

\* The getQuote requests of the page that await their response: those of the
\* cards, those the loops of the ticker race against their timers, those the
\* ticker abandoned at a timeout
QuoteRequests ==
    [i \in 1..Len(SelectSeq(fetches, LAMBDA run : ~run.quote.settled)) |->
        quoteKey(SelectSeq(fetches, LAMBDA run : ~run.quote.settled)[i].symbol)]
    \o [k \in 1..Len(SelectSeq(ticker.runs, LAMBDA run : run.phase = "race")) |->
        quoteKey(LET run == SelectSeq(ticker.runs, LAMBDA r : r.phase = "race")[k]
                 IN  run.symbols[run.i])]
    \o [j \in 1..Len(ticker.abandoned) |-> quoteKey(ticker.abandoned[j])]

\* C26: no two requests for the same cache key are in flight at the same
\* time, whoever the callers are (cards, loops of the ticker).
C26_OneRequestPerKey ==
    \A i, j \in 1..Len(QuoteRequests) : QuoteRequests[i] = QuoteRequests[j] => i = j

\* C30: at most one loop of fetchTickerData is running, and setTickerItems is
\* never called by the code of an effect that is not the current one (a loop
\* started before the watchlist changed).
C30_OneLoop ==
    /\ Len(ticker.runs) <= 1
    /\ ticker.wrote # Null => ticker.wrote[1].by = ticker.wrote[1].during

=============================================================================
